---- MODULE Spec2Model ----
(***************************************************************************)
(* A model of the OpenAI MCP server (src/src/app.ts and its entry points). *)
(*                                                                         *)
(* JavaScript values are tagged records; a string is a sequence of         *)
(* characters.  A literal that the code only compares as a whole or        *)
(* concatenates is written as a one-element sequence holding the literal.  *)
(***************************************************************************)
EXTENDS Integers, Sequences, FiniteSets, TLC

----------------------------------------------------------------------------
(* Bounds of the model *)

\* number of initializeApp() calls made during a run
MaxInitCalls == 2
\* number of handleMcpRequest() invocations that can be in flight at once
MaxTasks == 2
\* number of validateAuthToken() calls that can be in flight at once
MaxAuthCalls == 2
\* number of half periods of the cache the clock advances by
MaxTicks == 4
\* number of invocations of the Lambda handler the model keeps a place for
MaxHandlers == 2
\* number of signals and controller messages the standalone server is sent
MaxTriggers == 2
\* number of steps of the clock before the standalone server is shut down
MaxServerTicks == 1

----------------------------------------------------------------------------
(* JavaScript values *)

Undef == [t |-> "undefined"]
Null == [t |-> "null"]
Num(k) == [t |-> "number", n |-> k]
Str(q) == [t |-> "string", s |-> q]
Bool(v) == [t |-> "boolean", b |-> v]

\* ToBoolean, as used by `if (x)`, `!x` and `x || y`
Truthy(v) ==
  CASE v.t = "undefined" -> FALSE
    [] v.t = "null" -> FALSE
    [] v.t = "boolean" -> v.b
    [] v.t = "number" -> v.n # 0
    [] v.t = "string" -> v.s # <<>>
    [] OTHER -> TRUE

\* a destructuring default `x = d`: applies to undefined only, not to null
Default(v, d) == IF v = Undef THEN d ELSE v

\* String.prototype.startsWith
StartsWith(q, p) == Len(q) >= Len(p) /\ SubSeq(q, 1, Len(p)) = p

\* p occurs in q (String.prototype.includes)
Contains(q, p) ==
  \E i \in 0..(Len(q) - Len(p)) : SubSeq(q, i + 1, i + Len(p)) = p

IsSpace(c) == c = " "

RECURSIVE TrimLeft(_)
TrimLeft(q) == IF q # <<>> /\ IsSpace(Head(q)) THEN TrimLeft(Tail(q)) ELSE q

RECURSIVE TrimRight(_)
TrimRight(q) ==
  IF q # <<>> /\ IsSpace(q[Len(q)]) THEN TrimRight(SubSeq(q, 1, Len(q) - 1)) ELSE q

\* String.prototype.trim
Trim(q) == TrimRight(TrimLeft(q))

\* a thrown value: an Error instance with a message, or anything else
ErrorOf(msg) == [isError |-> TRUE, message |-> msg]
NonError == [isError |-> FALSE, message |-> <<>>]

\* `error instanceof Error ? error.message : 'Unknown error'`
MessageOf(e) == IF e.isError THEN e.message ELSE <<"Unknown error">>

----------------------------------------------------------------------------
(* Credential sources *)

\* config.json as loadConfig() can find it
ConfigFiles ==
  { [exists |-> FALSE, valid |-> FALSE, openaiApiKey |-> Undef],
    [exists |-> TRUE, valid |-> FALSE, openaiApiKey |-> Undef],
    [exists |-> TRUE, valid |-> TRUE, openaiApiKey |-> Undef],
    [exists |-> TRUE, valid |-> TRUE, openaiApiKey |-> Str(<<>>)],
    [exists |-> TRUE, valid |-> TRUE, openaiApiKey |-> Str(<<"k", "1">>)] }

\* loadConfig without the test of openaiApiKey
loadConfigKeyUnchecked(file) ==
  IF ~file.exists
    THEN [ok |-> FALSE,
          error |-> ErrorOf(<<"config.json not found. Please create it based on config.json.example">>)]
  ELSE IF ~file.valid
    THEN [ok |-> FALSE, error |-> ErrorOf(<<"Unexpected token in JSON">>)]
  ELSE [ok |-> TRUE, value |-> file.openaiApiKey]

\* loadConfig(): [ok, value | error]
loadConfig(file) ==
  IF ~file.exists
    THEN [ok |-> FALSE,
          error |-> ErrorOf(<<"config.json not found. Please create it based on config.json.example">>)]
  ELSE IF ~file.valid
    THEN [ok |-> FALSE, error |-> ErrorOf(<<"Unexpected token in JSON">>)]
  ELSE IF ~Truthy(file.openaiApiKey)
    THEN [ok |-> FALSE, error |-> ErrorOf(<<"openaiApiKey is required in config.json">>)]
  ELSE [ok |-> TRUE, value |-> file.openaiApiKey]

\* what client.send(GetSecretValueCommand) can settle with: a rejection, or a
\* response whose SecretString is absent, empty, not JSON, or a JSON object
SecretOutcomes ==
  { [rejects |-> TRUE, SecretString |-> Undef, valid |-> FALSE, apiKey |-> Undef],
    [rejects |-> FALSE, SecretString |-> Undef, valid |-> FALSE, apiKey |-> Undef],
    [rejects |-> FALSE, SecretString |-> Str(<<>>), valid |-> FALSE, apiKey |-> Undef],
    [rejects |-> FALSE, SecretString |-> Str(<<"not json">>), valid |-> FALSE, apiKey |-> Undef],
    [rejects |-> FALSE, SecretString |-> Str(<<"{}">>), valid |-> TRUE, apiKey |-> Undef],
    [rejects |-> FALSE, SecretString |-> Str(<<"{apiKey:7}">>), valid |-> TRUE, apiKey |-> Num(7)],
    [rejects |-> FALSE, SecretString |-> Str(<<"{apiKey:''}">>), valid |-> TRUE, apiKey |-> Str(<<>>)],
    [rejects |-> FALSE, SecretString |-> Str(<<"{apiKey:' k2 '}">>), valid |-> TRUE,
     apiKey |-> Str(<<" ", "k", "2", " ">>)] }

\* the part of getOpenAIApiKeyFromSecrets() after `await client.send(command)`
getOpenAIApiKeyFromSecrets(o) ==
  IF o.rejects
       \/ ~Truthy(o.SecretString)
       \/ ~o.valid
       \/ ~Truthy(o.apiKey)
       \/ o.apiKey.t # "string"
    THEN [ok |-> FALSE, error |-> ErrorOf(<<"OpenAI API key configuration error">>)]
    ELSE [ok |-> TRUE, value |-> Str(Trim(o.apiKey.s))]

----------------------------------------------------------------------------
(* Requests *)

\* a request's params.arguments object; a missing property reads as undefined
Arguments(p, m, mt, mct, re, vb, ura) ==
  [t |-> "object", prompt |-> p, model |-> m, max_tokens |-> mt,
   max_completion_tokens |-> mct, reasoning_effort |-> re, verbosity |-> vb,
   use_responses_api |-> ura]

Params(name, arguments) == [t |-> "object", name |-> name, arguments |-> arguments]

McpRequest(id, method, params) == [id |-> id, method |-> method, params |-> params]

\* `request.params?.name`
ParamsName(req) == IF req.params.t = "object" THEN req.params.name ELSE Undef

----------------------------------------------------------------------------
(* Responses *)

\* the object literals handleMcpRequest returns; keys are the own properties
EmptyObject == [keys |-> {}]

ResultResponse(id, result) ==
  [keys |-> {"jsonrpc", "id", "result"}, jsonrpc |-> Str(<<"2.0">>), id |-> id,
   result |-> result]

ErrorResponse(id, code, message) ==
  [keys |-> {"jsonrpc", "id", "error"}, jsonrpc |-> Str(<<"2.0">>), id |-> id,
   error |-> [code |-> code, message |-> message]]

InitializeResult ==
  [protocolVersion |-> Str(<<"2024-11-05">>),
   capabilities |-> {"tools", "logging", "prompts", "resources"},
   serverInfo |-> [name |-> Str(<<"OpenAI MCP Server">>), version |-> Str(<<"1.0.0">>)]]

PingResult == [status |-> Str(<<"ok">>)]

NoProperties == [t |-> "object"]

DefaultModel == Str(<<"g", "p", "t", "-", "5">>)
DefaultMaxTokens == 1000
DefaultEffort == Str(<<"medium">>)
DefaultVerbosity == Str(<<"medium">>)

\* QueryOpenaiTool with the schema of the first release: three properties
QueryOpenaiToolLegacy ==
  [name |-> Str(<<"query_openai">>),
   inputSchema |->
     [type |-> "object",
      properties |->
        [prompt |-> [type |-> "string"],
         model |-> [type |-> "string", default |-> DefaultModel],
         max_tokens |-> [type |-> "number", default |-> Num(DefaultMaxTokens)]],
      required |-> <<"prompt">>]]

\* the tool descriptor of tools/list
QueryOpenaiTool ==
  [name |-> Str(<<"query_openai">>),
   inputSchema |->
     [type |-> "object",
      properties |->
        [prompt |-> [type |-> "string"],
         model |-> [type |-> "string", default |-> DefaultModel],
         max_tokens |-> [type |-> "number", default |-> Num(DefaultMaxTokens)],
         max_completion_tokens |-> [type |-> "number"],
         reasoning_effort |->
           [type |-> "string", enum |-> <<"minimal", "low", "medium", "high">>,
            default |-> DefaultEffort],
         verbosity |->
           [type |-> "string", enum |-> <<"low", "medium", "high">>,
            default |-> DefaultVerbosity],
         use_responses_api |-> [type |-> "boolean", default |-> Bool(TRUE)]],
      required |-> <<"prompt">>]]

ToolsListResult == [tools |-> <<QueryOpenaiTool>>]

ContentResult(text) == [content |-> <<[type |-> "text", text |-> text]>>]

NoResponseText == Str(<<"No response received">>)

\* OrNoResponse with `??` in place of `||`: only undefined and null are replaced
OrNoResponseNullish(x) == IF x.t \in {"undefined", "null"} THEN NoResponseText ELSE x

\* `x || 'No response received'`
OrNoResponse(x) == IF Truthy(x) THEN x ELSE NoResponseText

UnknownMethod(req) ==
  ErrorResponse(req.id, -32601, <<"Unknown method: ">> \o req.method)

QueryError(req, e) ==
  ErrorResponse(req.id, -32603, <<"Error querying OpenAI: ">> \o MessageOf(e))

NotInitializedError == ErrorOf(<<"App not initialized", ". Call initializeApp() first.">>)

----------------------------------------------------------------------------
(* Model call strategy *)

GPT5 == <<"g", "p", "t", "-", "5">>

\* the destructuring of request.params.arguments with its defaults
Destructure(a) ==
  [prompt |-> a.prompt,
   model |-> Default(a.model, DefaultModel),
   max_tokens |-> Default(a.max_tokens, Num(DefaultMaxTokens)),
   max_completion_tokens |-> a.max_completion_tokens,
   reasoning_effort |-> Default(a.reasoning_effort, DefaultEffort),
   verbosity |-> Default(a.verbosity, DefaultVerbosity),
   use_responses_api |-> Default(a.use_responses_api, Bool(TRUE))]

\* `model.startsWith('gpt-5')` throws a TypeError unless model is a string
ModelThrows(d) == d.model.t # "string"

\* Branch without the test of use_responses_api
BranchIgnoresFlag(d) ==
  IF StartsWith(d.model.s, GPT5) THEN "responses" ELSE "otherchat"

\* which of the three branches of the try block runs
Branch(d) ==
  IF StartsWith(d.model.s, GPT5)
    THEN IF Truthy(d.use_responses_api) THEN "responses" ELSE "gpt5chat"
    ELSE "otherchat"

\* WithTokenCeiling as it was before max_completion_tokens existed
WithLegacyCeiling(options, d) == options @@ ("max_tokens" :> d.max_tokens)

\* WithTokenCeiling without the else: max_tokens is always set
WithBothCeilings(options, d) ==
  IF d.max_completion_tokens # Undef
    THEN options @@ ("max_completion_tokens" :> d.max_completion_tokens)
                 @@ ("max_tokens" :> d.max_tokens)
    ELSE options @@ ("max_tokens" :> d.max_tokens)

\* if (max_completion_tokens !== undefined) ... else requestOptions.max_tokens = ...
WithTokenCeiling(options, d) ==
  IF d.max_completion_tokens # Undef
    THEN options @@ ("max_completion_tokens" :> d.max_completion_tokens)
    ELSE options @@ ("max_tokens" :> d.max_tokens)

UserMessages(d) == <<[role |-> "user", content |-> d.prompt]>>

\* responseOptions of the Responses API branch
ResponsesOptions(d) ==
  [model |-> d.model, input |-> d.prompt,
   reasoning |-> [effort |-> d.reasoning_effort],
   text |-> [verbosity |-> d.verbosity]]

\* Gpt5ChatOptions with the two settings checked against the schema's enums
Gpt5ChatOptionsValidated(d) ==
  WithTokenCeiling(
    [model |-> d.model, messages |-> UserMessages(d),
     reasoning_effort |->
       IF d.reasoning_effort \in {Str(<<"minimal">>), Str(<<"low">>), Str(<<"medium">>), Str(<<"high">>)}
         THEN d.reasoning_effort ELSE DefaultEffort,
     verbosity |->
       IF d.verbosity \in {Str(<<"low">>), Str(<<"medium">>), Str(<<"high">>)}
         THEN d.verbosity ELSE DefaultVerbosity], d)

\* requestOptions of the GPT-5 Chat Completions branch
Gpt5ChatOptions(d) ==
  WithTokenCeiling(
    [model |-> d.model, messages |-> UserMessages(d),
     reasoning_effort |-> d.reasoning_effort, verbosity |-> d.verbosity], d)

\* OtherChatOptions built like the GPT-5 chat options
OtherChatOptionsForwards(d) ==
  WithTokenCeiling(
    [model |-> d.model, messages |-> UserMessages(d),
     reasoning_effort |-> d.reasoning_effort, verbosity |-> d.verbosity], d)

\* requestOptions of the branch for other models
OtherChatOptions(d) ==
  WithTokenCeiling([model |-> d.model, messages |-> UserMessages(d)], d)

\* the upstream call a tools/call makes: which API, with which payload
UpstreamCall(d) ==
  CASE Branch(d) = "responses" -> [api |-> "responses", payload |-> ResponsesOptions(d)]
    [] Branch(d) = "gpt5chat" -> [api |-> "chat", payload |-> Gpt5ChatOptions(d)]
    [] OTHER -> [api |-> "chat", payload |-> OtherChatOptions(d)]

----------------------------------------------------------------------------
(* Inputs *)

Ids == {Undef, Num(0), Str(<<>>), Num(7)}

Methods ==
  { <<"initialize">>, <<"notifications/initialized">>, <<"ping">>,
    <<"tools/list">>, <<"tools/call">>, <<"Tools/List">>, <<"foo/bar">> }

GPT4 == Str(<<"g", "p", "t", "-", "4">>)
GPT52 == Str(<<"g", "p", "t", "-", "5", ".", "2">>)

Models == {Undef, GPT52, GPT4, Str(<<"G", "P", "T", "-", "5">>), Num(5)}

Flags == {Undef, Bool(TRUE), Bool(FALSE), Num(1)}

Prompt == Str(<<"Hi">>)

\* the arguments objects of the dispatcher's runs: only the model varies
DispatchArguments ==
  { Arguments(Prompt, m, Undef, Undef, Undef, Undef, Undef) : m \in {Undef, GPT4, Num(5)} }

\* the arguments objects of the call strategy's runs: every field varies
StrategyArguments ==
  { Arguments(Prompt, m, mt, mct, re, vb, f) :
      m \in Models, mt \in {Undef, Num(100)}, mct \in {Undef, Null, Num(2000)},
      re \in {Undef, Str(<<"high">>), Str(<<"extreme">>)}, vb \in {Undef, Str(<<"low">>)}, f \in Flags }

QueryParams(as) == { Params(Str(<<"query_openai">>), a) : a \in as }

\* requests of every method, with every id, and tools/call with the given params
RequestsWith(ids, ps) ==
  { McpRequest(id, m, Undef) : id \in ids, m \in Methods }
    \cup { McpRequest(id, <<"tools/call">>, p) : id \in ids, p \in ps }

DispatchRequests ==
  RequestsWith(Ids, {Params(Str(<<"other_tool">>), Undef)}
                      \cup QueryParams({Undef, Null} \cup DispatchArguments))

StrategyRequests ==
  { McpRequest(Num(7), <<"tools/call">>, p) : p \in QueryParams({Undef} \cup StrategyArguments) }

\* what openai.responses.create / openai.chat.completions.create settle with
NoUpstream == [rejects |-> FALSE, error |-> NonError, body |-> Undef]

Rejection(e) == [rejects |-> TRUE, error |-> e, body |-> Undef]

Resolution(body) == [rejects |-> FALSE, error |-> NonError, body |-> body]

ResponsesBody(text) == [t |-> "object", output_text |-> text, choices |-> Undef]

ChatBody(choices) == [t |-> "object", output_text |-> Undef, choices |-> choices]

Array(a) == [t |-> "array", a |-> a]

Choice(message) == [t |-> "object", message |-> message]

Message(content) == [t |-> "object", content |-> content]

Rejections == {Rejection(ErrorOf(<<"API rate limit exceeded">>)), Rejection(NonError)}

ResponsesOutcomes ==
  Rejections \cup
    { Resolution(ResponsesBody(x)) : x \in {Undef, Str(<<>>), Str(<<"Quantum!">>)} }

ChatOutcomes ==
  Rejections \cup
    { Resolution(ChatBody(Undef)), Resolution(ChatBody(Array(<<>>))),
      Resolution(ChatBody(Array(<<Choice(Undef)>>))),
      Resolution(ChatBody(Array(<<Choice(Message(Null))>>))),
      Resolution(ChatBody(Array(<<Choice(Message(Str(<<"Hello">>)))>>))) }

OutcomesOf(api) == IF api = "responses" THEN ResponsesOutcomes ELSE ChatOutcomes

----------------------------------------------------------------------------
(* Authentication gate: the pure parts of auth.ts *)

\* the printable ASCII characters, code 32 (space) to code 126; the grave
\* accent (code 96) goes by its name
Printable ==
  <<" ", "!", "\"", "#", "$", "%", "&", "'", "(", ")", "*", "+", ",", "-",
    ".", "/", "0", "1", "2", "3", "4", "5", "6", "7", "8", "9", ":", ";",
    "<", "=", ">", "?", "@", "A", "B", "C", "D", "E", "F", "G", "H", "I",
    "J", "K", "L", "M", "N", "O", "P", "Q", "R", "S", "T", "U", "V", "W",
    "X", "Y", "Z", "[", "\\", "]", "^", "_", "grave", "a", "b", "c", "d", "e",
    "f", "g", "h", "i", "j", "k", "l", "m", "n", "o", "p", "q", "r", "s",
    "t", "u", "v", "w", "x", "y", "z", "{", "|", "}", "~">>

CodeOf(c) == 31 + CHOOSE i \in 1..Len(Printable) : Printable[i] = c

\* a byte read as UTF-8: the character of a printable ASCII code, and a
\* replacement for every other byte
CharOf(b) == IF b - 31 \in 1..Len(Printable) THEN Printable[b - 31] ELSE "?"

B64Alphabet ==
  <<"A", "B", "C", "D", "E", "F", "G", "H", "I", "J", "K", "L", "M", "N",
    "O", "P", "Q", "R", "S", "T", "U", "V", "W", "X", "Y", "Z", "a", "b",
    "c", "d", "e", "f", "g", "h", "i", "j", "k", "l", "m", "n", "o", "p",
    "q", "r", "s", "t", "u", "v", "w", "x", "y", "z", "0", "1", "2", "3",
    "4", "5", "6", "7", "8", "9", "+", "/">>

IsB64(c) == \E i \in 1..Len(B64Alphabet) : B64Alphabet[i] = c

SextetOf(c) == (CHOOSE i \in 1..Len(B64Alphabet) : B64Alphabet[i] = c) - 1

\* four sextets give three bytes; a rest of three gives two, of two gives one
RECURSIVE SextetsToBytes(_)
SextetsToBytes(x) ==
  IF Len(x) < 2 THEN <<>>
  ELSE IF Len(x) = 2 THEN <<x[1] * 4 + x[2] \div 16>>
  ELSE IF Len(x) = 3
    THEN <<x[1] * 4 + x[2] \div 16, (x[2] % 16) * 16 + x[3] \div 4>>
  ELSE <<x[1] * 4 + x[2] \div 16, (x[2] % 16) * 16 + x[3] \div 4, (x[3] % 4) * 64 + x[4]>>
         \o SextetsToBytes(SubSeq(x, 5, Len(x)))

\* `Buffer.from(encoded, 'base64')`: characters outside the alphabet, the
\* padding among them, are passed over; it never throws
Base64Decode(encoded) ==
  LET digits == SelectSeq(encoded, IsB64)
  IN SextetsToBytes([i \in DOMAIN digits |-> SextetOf(digits[i])])

\* `.toString('utf-8')`
Utf8String(bytes) == [i \in DOMAIN bytes |-> CharOf(bytes[i])]

\* the base64 text a client computes for its credentials, with padding
RECURSIVE BytesToBase64(_)
BytesToBase64(b) ==
  IF b = <<>> THEN <<>>
  ELSE IF Len(b) = 1
    THEN <<B64Alphabet[b[1] \div 4 + 1], B64Alphabet[(b[1] % 4) * 16 + 1], "=", "=">>
  ELSE IF Len(b) = 2
    THEN <<B64Alphabet[b[1] \div 4 + 1], B64Alphabet[(b[1] % 4) * 16 + b[2] \div 16 + 1],
           B64Alphabet[(b[2] % 16) * 4 + 1], "=">>
  ELSE <<B64Alphabet[b[1] \div 4 + 1], B64Alphabet[(b[1] % 4) * 16 + b[2] \div 16 + 1],
         B64Alphabet[(b[2] % 16) * 4 + b[3] \div 64 + 1], B64Alphabet[(b[3] % 64) + 1]>>
         \o BytesToBase64(SubSeq(b, 4, Len(b)))

\* `Buffer.from(credentials).toString('base64')`
Base64Encode(q) == BytesToBase64([i \in DOMAIN q |-> CodeOf(q[i])])

\* the letters of 'Basic' under the i flag of the pattern
LowerOf(c) ==
  CASE c = "B" -> "b" [] c = "A" -> "a" [] c = "S" -> "s" [] c = "I" -> "i"
    [] c = "C" -> "c" [] OTHER -> c

\* `authHeader.match(/^Basic\s+(.+)$/i)`: whether it matches, and matches[1].
\* The run of whitespace is taken whole unless nothing would be left for the
\* group, which then is its last character.
MatchBasic(h) ==
  LET rest == SubSeq(h, 6, Len(h))
      blanks == Len(rest) - Len(TrimLeft(rest))
  IN [matched |-> /\ Len(h) >= 7
                  /\ [i \in 1..5 |-> LowerOf(h[i])] = <<"b", "a", "s", "i", "c">>
                  /\ blanks >= 1,
      group |-> IF blanks < Len(rest) THEN TrimLeft(rest) ELSE SubSeq(rest, Len(rest), Len(rest))]

\* `decodedCredentials.split(':')`
RECURSIVE Split(_)
Split(q) ==
  IF \A i \in DOMAIN q : q[i] # ":" THEN <<q>>
  ELSE LET i == CHOOSE j \in DOMAIN q : q[j] = ":" /\ \A l \in 1..(j - 1) : q[l] # ":"
       IN <<SubSeq(q, 1, i - 1)>> \o Split(SubSeq(q, i + 1, Len(q)))

\* `const [username, password] = decodedCredentials.split(':')`
Credentials(encoded) ==
  LET parts == Split(Utf8String(Base64Decode(encoded)))
  IN [username |-> Str(parts[1]),
      password |-> IF Len(parts) >= 2 THEN Str(parts[2]) ELSE Undef]

Admin == <<"a", "d", "m", "i", "n">>

\* validateAuthToken gets as far as asking for the stored password
NeedsPassword(h) ==
  /\ Truthy(h)
  /\ MatchBasic(h.s).matched
  /\ Credentials(MatchBasic(h.s).group).username = Str(Admin)

\* the password the header carries, as validateAuthToken reads it
SuppliedPassword(h) == Credentials(MatchBasic(h.s).group).password

\* what client.send(GetSecretValueCommand) can settle with for the auth secret
AuthSecret(str, valid, password, token) ==
  [rejects |-> FALSE, SecretString |-> str, valid |-> valid, password |-> password,
   token |-> token]

AuthSecretRejection ==
  [rejects |-> TRUE, SecretString |-> Undef, valid |-> FALSE, password |-> Undef,
   token |-> Undef]

AuthConfigurationError == ErrorOf(<<"Authentication configuration error">>)

\* the part of getAuthPasswordFromSecrets() after `await client.send(command)`:
\* the password as stored (raw) and as returned and cached (value)
getAuthPasswordFromSecrets(o) ==
  IF o.rejects \/ ~Truthy(o.SecretString) \/ ~o.valid
    THEN [ok |-> FALSE, error |-> AuthConfigurationError]
  ELSE LET password == IF Truthy(o.password) THEN o.password ELSE o.token
       IN IF ~Truthy(password) \/ password.t # "string"
            THEN [ok |-> FALSE, error |-> AuthConfigurationError]
            ELSE [ok |-> TRUE, raw |-> password, value |-> Str(Trim(password.s))]

\* createAuthError()
createAuthError ==
  [statusCode |-> 401,
   headers |-> ("Content-Type" :> <<"application/json">>)
                 @@ ("WWW-Authenticate" :> <<"Basic realm=\"OpenAI MCP Server\"">>),
   body |-> [error |-> <<"Unauthorized - Valid Basic auth required (username: ", "admin", ")">>]]

----------------------------------------------------------------------------
(* Invocations of handleMcpRequest *)

Tasks == 1..MaxTasks

NoRequest == McpRequest(Undef, <<>>, Undef)

IdleTask == [pc |-> "idle", req |-> NoRequest, calls |-> <<>>]

\* Awaiting with the upstream call made a second time
AwaitingRetried(req, call) == [pc |-> "awaitUpstream", req |-> req, calls |-> <<call, call>>]

Awaiting(req, call) == [pc |-> "awaitUpstream", req |-> req, calls |-> <<call>>]

NoneDone ==
  [pc |-> "none", k |-> 0, req |-> NoRequest, calls |-> <<>>, upstream |-> NoUpstream,
   resp |-> EmptyObject, thrown |-> NonError]

Returned(k, req, calls, upstream, resp) ==
  [pc |-> "returned", k |-> k, req |-> req, calls |-> calls, upstream |-> upstream,
   resp |-> resp, thrown |-> NonError]

Rejected(k, req, e) ==
  [pc |-> "rejected", k |-> k, req |-> req, calls |-> <<>>, upstream |-> NoUpstream,
   resp |-> EmptyObject, thrown |-> e]

----------------------------------------------------------------------------
(* State of app.ts *)

VARIABLES
  secretMode,     \* process.env.OPENAI_API_KEY_SECRET_NAME is set
  initialized,    \* `let initialized = false`
  openai,         \* `let openai: OpenAI`
  secretsClient,  \* `let secretsClient` has been constructed
  inits,          \* the initializeApp() calls: position and outcome of each
  configReads,    \* number of loadConfig() calls
  secretSends,    \* number of requests sent to the secret store
  clientsBuilt,   \* number of `new OpenAI(...)` constructions
  tasks,          \* the handleMcpRequest() invocations awaiting their upstream call
  done,           \* what the last step handed to a handleMcpRequest() caller, if anything
  cachedToken,    \* auth.ts: `let cachedToken: string | null = null`
  cacheExpiry,    \* auth.ts: `let cacheExpiry = 0`
  authSecretsClient, \* auth.ts: `let secretsClient` has been constructed
  clock,          \* Date.now(), in milliseconds since the module was loaded
  authCalls,      \* the validateAuthToken() calls awaiting the secret store
  authDone,       \* what the last step handed to a validateAuthToken() caller, if anything
  initPromise,    \* lambda-handler.ts: `let initPromise`
  lam,            \* the invocations of the Lambda handler: position and locals of each
  lamDone,        \* what the last step handed to the Lambda runtime, if anything
  proc,           \* server-entry.ts: the process, its server and its timers
  conn,           \* server-entry.ts: the request the server is handling
  connDone,       \* what the last step answered to a client of the server, if anything
  logged          \* what the last step wrote with console.log / console.error

sessionVars ==
  <<secretMode, initialized, openai, secretsClient, inits, configReads,
    secretSends, clientsBuilt>>

appVars == <<sessionVars, tasks, done>>

authVars == <<cachedToken, cacheExpiry, authSecretsClient, clock, authCalls, authDone>>

lambdaVars == <<initPromise, lam, lamDone>>

serverVars == <<proc, conn, connDone>>

\* the state outside app.ts
boundaryVars == <<authVars, lambdaVars, serverVars>>

vars == <<appVars, boundaryVars, logged>>

\* a line of the log: the statement that wrote it and the credentials it holds
LogLine(site, holds) == [site |-> site, holds |-> holds]

NoClient == [n |-> 0, apiKey |-> Undef, timeout |-> 0, maxRetries |-> 0]

TimeoutMs == 14 * 60 * 1000
MaxRetries == 1

\* `new OpenAI({apiKey, timeout, maxRetries})`, the n-th client constructed
NewOpenAI(n, key) ==
  [n |-> n, apiKey |-> key, timeout |-> TimeoutMs, maxRetries |-> MaxRetries]

InitCalls == 1..MaxInitCalls

NoSource == [kind |-> "none"]
FromFile(file) == [kind |-> "file", file |-> file]
FromSecret(o) == [kind |-> "secret", secret |-> o]

\* a call of initializeApp(): where it stands, the credential source it read,
\* the client it built (0: none) and the message of the error it threw
IdleCall == [pc |-> "idle", error |-> <<>>, source |-> NoSource, built |-> 0]

\* the rejection of initializeApp(): `Failed to initialize app: ${message}`
InitFailure(e) == <<"Failed to initialize app: ">> \o MessageOf(e)

SessionInit ==
  /\ secretMode \in BOOLEAN
  /\ initialized = FALSE
  /\ openai = NoClient
  /\ secretsClient = FALSE
  /\ inits = [c \in InitCalls |-> IdleCall]
  /\ configReads = 0
  /\ secretSends = 0
  /\ clientsBuilt = 0

\* InitializeAppAgain without the early return: a client is built again
InitializeAppAgainRebuilds(c) ==
  /\ inits[c].pc = "idle"
  /\ initialized
  /\ inits' = [inits EXCEPT ![c].pc = "returned", ![c].built = clientsBuilt + 1]
  /\ openai' = NewOpenAI(clientsBuilt + 1, openai.apiKey)
  /\ clientsBuilt' = clientsBuilt + 1
  /\ done' = NoneDone
  /\ UNCHANGED <<secretMode, initialized, secretsClient, configReads, secretSends, tasks>>
  /\ logged' = {}

\* initializeApp() called while already initialized: `if (initialized) return`
InitializeAppAgain(c) ==
  /\ inits[c].pc = "idle"
  /\ initialized
  /\ inits' = [inits EXCEPT ![c].pc = "returned"]
  /\ done' = NoneDone
  /\ UNCHANGED <<secretMode, initialized, openai, secretsClient, configReads,
                 secretSends, clientsBuilt, tasks>>
  /\ logged' = {}

\* initializeApp() in local mode: loadConfig(), new OpenAI, initialized = true
InitializeAppFile(c, file) ==
  /\ inits[c].pc = "idle"
  /\ ~initialized
  /\ ~secretMode
  /\ configReads' = configReads + 1
  /\ LET r == loadConfig(file) IN
       IF r.ok
         THEN /\ openai' = NewOpenAI(clientsBuilt + 1, r.value)
              /\ clientsBuilt' = clientsBuilt + 1
              /\ initialized' = TRUE
              /\ inits' = [inits EXCEPT ![c] =
                   [pc |-> "returned", error |-> <<>>, source |-> FromFile(file),
                    built |-> clientsBuilt + 1]]
         ELSE /\ inits' = [inits EXCEPT ![c] =
                   [pc |-> "thrown", error |-> InitFailure(r.error),
                    source |-> FromFile(file), built |-> 0]]
              /\ UNCHANGED <<openai, clientsBuilt, initialized>>
  /\ done' = NoneDone
  /\ UNCHANGED <<secretMode, secretsClient, secretSends, tasks>>
  /\ logged' = {}

\* initializeApp() in secret-store mode, up to `await client.send(command)`
InitializeAppSecret(c) ==
  /\ inits[c].pc = "idle"
  /\ ~initialized
  /\ secretMode
  /\ secretsClient' = TRUE
  /\ secretSends' = secretSends + 1
  /\ inits' = [inits EXCEPT ![c] =
       [pc |-> "awaitSecret", error |-> <<>>, source |-> NoSource, built |-> 0]]
  /\ done' = NoneDone
  /\ UNCHANGED <<secretMode, initialized, openai, configReads, clientsBuilt, tasks>>
  /\ logged' = {}

\* the secret store answers; initializeApp() resumes and runs to its end
InitializeAppResume(c, o) ==
  /\ inits[c].pc = "awaitSecret"
  /\ LET r == getOpenAIApiKeyFromSecrets(o) IN
       IF r.ok
         THEN /\ openai' = NewOpenAI(clientsBuilt + 1, r.value)
              /\ clientsBuilt' = clientsBuilt + 1
              /\ initialized' = TRUE
              /\ inits' = [inits EXCEPT ![c] =
                   [pc |-> "returned", error |-> <<>>, source |-> FromSecret(o),
                    built |-> clientsBuilt + 1]]
         ELSE /\ inits' = [inits EXCEPT ![c] =
                   [pc |-> "thrown", error |-> InitFailure(r.error),
                    source |-> FromSecret(o), built |-> 0]]
              /\ UNCHANGED <<openai, clientsBuilt, initialized>>
  /\ done' = NoneDone
  /\ UNCHANGED <<secretMode, secretsClient, configReads, secretSends, tasks>>
  /\ logged' = IF getOpenAIApiKeyFromSecrets(o).ok THEN {}
               ELSE {LogLine("Failed to retrieve OpenAI API key from Secrets Manager:", {})}

----------------------------------------------------------------------------
(* handleMcpRequest *)

\* Lifecycle with the test of the notification's id inverted
LifecycleAckInverted(req) ==
  CASE req.method = <<"initialize">> -> ResultResponse(req.id, InitializeResult)
    [] req.method = <<"notifications/initialized">> ->
         IF req.id # Undef THEN EmptyObject ELSE ResultResponse(req.id, NoProperties)
    [] req.method = <<"ping">> -> ResultResponse(req.id, PingResult)
    [] req.method = <<"tools/list">> -> ResultResponse(req.id, ToolsListResult)
    [] OTHER -> UnknownMethod(req)

\* the responses of the methods that make no upstream call, in the order tested
Lifecycle(req) ==
  CASE req.method = <<"initialize">> -> ResultResponse(req.id, InitializeResult)
    [] req.method = <<"notifications/initialized">> ->
         IF req.id = Undef THEN EmptyObject ELSE ResultResponse(req.id, NoProperties)
    [] req.method = <<"ping">> -> ResultResponse(req.id, PingResult)
    [] req.method = <<"tools/list">> -> ResultResponse(req.id, ToolsListResult)
    [] OTHER -> UnknownMethod(req)

IsLifecycle(req) ==
  req.method \in
    {<<"initialize">>, <<"notifications/initialized">>, <<"ping">>, <<"tools/list">>}

\* IsQueryOpenai without the test of the tool's name
IsQueryOpenaiAnyTool(req) ==
  /\ ~IsLifecycle(req)
  /\ req.method = <<"tools/call">>
  /\ req.params.t = "object"

\* `request.method === 'tools/call' && request.params?.name === 'query_openai'`
IsQueryOpenai(req) ==
  /\ ~IsLifecycle(req)
  /\ req.method = <<"tools/call">>
  /\ ParamsName(req) = Str(<<"query_openai">>)

\* destructuring undefined or null throws a TypeError, outside the try block
DestructureThrows(req) == req.params.arguments.t \in {"undefined", "null"}

DestructureError == ErrorOf(<<"Cannot destructure property 'prompt' of 'request.params.arguments'">>)

StartsWithError == ErrorOf(<<"model.startsWith is not a function">>)

ReadError == ErrorOf(<<"Cannot read properties of undefined (reading '0')">>)

\* `response.choices[0]?.message?.content`
FirstContent(body) ==
  IF body.choices.a = <<>> THEN Undef
  ELSE IF body.choices.a[1].message.t # "object" THEN Undef
  ELSE body.choices.a[1].message.content

\* AfterUpstream with the catch block's response built without the request's id
AfterUpstreamCatchDropsId(req, api, o) ==
  IF o.rejects THEN ErrorResponse(Undef, -32603, <<"Error querying OpenAI: ">> \o MessageOf(o.error))
  ELSE IF api = "responses"
    THEN ResultResponse(req.id, ContentResult(OrNoResponse(o.body.output_text)))
  ELSE IF o.body.choices.t # "array" THEN QueryError(req, ReadError)
  ELSE ResultResponse(req.id, ContentResult(OrNoResponse(FirstContent(o.body))))

\* the code after `await openai...create(...)`, for the call's API
AfterUpstream(req, api, o) ==
  IF o.rejects THEN QueryError(req, o.error)
  ELSE IF api = "responses"
    THEN ResultResponse(req.id, ContentResult(OrNoResponse(o.body.output_text)))
  ELSE IF o.body.choices.t # "array" THEN QueryError(req, ReadError)
  ELSE ResultResponse(req.id, ContentResult(OrNoResponse(FirstContent(o.body))))

\* Ready without the test of the flag
ReadyUnchecked == TRUE

\* `if (!initialized) throw ...` does not fire
Ready == initialized

\* handleMcpRequest(req), from its call to its first await or to its end
HandleMcpRequest(k, req) ==
  /\ tasks[k].pc = "idle"
  /\ IF ~Ready
       THEN /\ done' = Rejected(k, req, NotInitializedError)
            /\ UNCHANGED tasks
     ELSE IF ~IsQueryOpenai(req)
       THEN /\ done' = Returned(k, req, <<>>, NoUpstream, Lifecycle(req))
            /\ UNCHANGED tasks
     ELSE IF DestructureThrows(req)
       THEN /\ done' = Rejected(k, req, DestructureError)
            /\ UNCHANGED tasks
     ELSE LET d == Destructure(req.params.arguments) IN
       IF ModelThrows(d)
         THEN /\ done' = Returned(k, req, <<>>, NoUpstream, QueryError(req, StartsWithError))
              /\ UNCHANGED tasks
         ELSE /\ tasks' = [tasks EXCEPT ![k] = Awaiting(req, UpstreamCall(d))]
              /\ done' = NoneDone
  /\ UNCHANGED sessionVars
  /\ logged' = {}

\* UpstreamSettles with a rejection taking the session out of Ready
UpstreamSettlesResets(k, o) ==
  /\ tasks[k].pc = "awaitUpstream"
  /\ o \in OutcomesOf(tasks[k].calls[1].api)
  /\ done' = Returned(k, tasks[k].req, tasks[k].calls, o,
                      AfterUpstream(tasks[k].req, tasks[k].calls[1].api, o))
  /\ tasks' = [tasks EXCEPT ![k] = IdleTask]
  /\ initialized' = (initialized /\ ~o.rejects)
  /\ UNCHANGED <<secretMode, openai, secretsClient, inits, configReads, secretSends,
                 clientsBuilt>>
  /\ logged' = {}

\* the upstream call of task k settles; handleMcpRequest resumes and returns
UpstreamSettles(k, o) ==
  /\ tasks[k].pc = "awaitUpstream"
  /\ o \in OutcomesOf(tasks[k].calls[1].api)
  /\ done' = Returned(k, tasks[k].req, tasks[k].calls, o,
                      AfterUpstream(tasks[k].req, tasks[k].calls[1].api, o))
  /\ tasks' = [tasks EXCEPT ![k] = IdleTask]
  /\ UNCHANGED sessionVars
  /\ logged' = {}

----------------------------------------------------------------------------
(* validateAuthToken *)

CACHE_TTL == 5 * 60 * 1000

\* the step of the clock: half the cache's period
HalfPeriod == CACHE_TTL \div 2

AuthCalls == 1..MaxAuthCalls

IdleAuthCall == [pc |-> "idle", header |-> Undef, now |-> 0]

\* suspended at `await client.send(command)`; `now` was read before
AwaitingSecret(h, now) == [pc |-> "awaitSecret", header |-> h, now |-> now]

NoAuthDone ==
  [pc |-> "none", c |-> 0, header |-> Undef, result |-> FALSE, via |-> "none",
   stored |-> Undef, answer |-> AuthSecretRejection, now |-> 0, thrown |-> NonError]

\* validateAuthToken(h) returned `result`, having read the clock at `now`;
\* via: the password came from the cache, from the store, or was not asked for;
\* stored: the password as the store or the cache held it; answer: what the
\* store settled with, when it was asked
AuthReturned(c, h, result, via, stored, now) ==
  [pc |-> "returned", c |-> c, header |-> h, result |-> result, via |-> via,
   stored |-> stored, answer |-> AuthSecretRejection, now |-> now, thrown |-> NonError]

AuthRejected(c, h, e, now) ==
  [pc |-> "rejected", c |-> c, header |-> h, result |-> FALSE, via |-> "store",
   stored |-> Undef, answer |-> AuthSecretRejection, now |-> now, thrown |-> e]

AuthInit ==
  /\ cachedToken = Null
  /\ cacheExpiry = 0
  /\ authSecretsClient = FALSE
  /\ clock = 0
  /\ authCalls = [c \in AuthCalls |-> IdleAuthCall]
  /\ authDone = NoAuthDone

\* `cachedToken && now < cacheExpiry`, with now read at this moment
CacheHit == Truthy(cachedToken) /\ clock < cacheExpiry

\* AuthCatch without the try block: the resolver's error leaves the function
AuthCatchMissing(c, h, e, now) == AuthRejected(c, h, e, now)

\* `catch (error) { console.error(...); return false; }`
AuthCatch(c, h, e, now) == AuthReturned(c, h, FALSE, "store", Undef, now)

\* ValidateAuthToken with the cache consulted whatever its expiry
ValidateAuthTokenStale(c, h) ==
  /\ authCalls[c].pc = "idle"
  /\ IF ~NeedsPassword(h)
       THEN /\ authDone' = AuthReturned(c, h, FALSE, "none", Undef, clock)
            /\ UNCHANGED <<authCalls, authSecretsClient>>
     ELSE IF Truthy(cachedToken)
       THEN /\ authDone' = AuthReturned(c, h, SuppliedPassword(h) = cachedToken,
                                        "cache", cachedToken, clock)
            /\ UNCHANGED <<authCalls, authSecretsClient>>
       ELSE /\ authCalls' = [authCalls EXCEPT ![c] = AwaitingSecret(h, clock)]
            /\ authSecretsClient' = TRUE
            /\ authDone' = NoAuthDone
  /\ logged' = {}
  /\ UNCHANGED <<cachedToken, cacheExpiry, clock>>

\* validateAuthToken(h), from its call to `await client.send(command)` or to
\* its end
ValidateAuthToken(c, h) ==
  /\ authCalls[c].pc = "idle"
  /\ IF ~NeedsPassword(h)
       THEN /\ authDone' = AuthReturned(c, h, FALSE, "none", Undef, clock)
            /\ UNCHANGED <<authCalls, authSecretsClient>>
     ELSE IF CacheHit
       THEN /\ authDone' = AuthReturned(c, h, SuppliedPassword(h) = cachedToken,
                                        "cache", cachedToken, clock)
            /\ UNCHANGED <<authCalls, authSecretsClient>>
       ELSE /\ authCalls' = [authCalls EXCEPT ![c] = AwaitingSecret(h, clock)]
            /\ authSecretsClient' = TRUE
            /\ authDone' = NoAuthDone
  /\ logged' = {}
  /\ UNCHANGED <<cachedToken, cacheExpiry, clock>>

\* the secret store answers call c; getAuthPasswordFromSecrets() resumes, and
\* validateAuthToken() after it, to its end
AuthSecretSettles(c, o) ==
  /\ authCalls[c].pc = "awaitSecret"
  /\ LET r == getAuthPasswordFromSecrets(o)
         h == authCalls[c].header
         now == authCalls[c].now
     IN IF r.ok
          THEN /\ cachedToken' = r.value
               /\ cacheExpiry' = now + CACHE_TTL
               /\ authDone' = [AuthReturned(c, h, SuppliedPassword(h) = r.value,
                                            "store", r.raw, now) EXCEPT !.answer = o]
               /\ logged' = {}
          ELSE /\ authDone' = [AuthCatch(c, h, r.error, now) EXCEPT !.answer = o]
               /\ logged' =
                    { LogLine("Failed to retrieve auth password from Secrets Manager:", {}),
                      LogLine("Auth validation failed:", {}) }
               /\ UNCHANGED <<cachedToken, cacheExpiry>>
  /\ authCalls' = [authCalls EXCEPT ![c] = IdleAuthCall]
  /\ UNCHANGED <<authSecretsClient, clock>>

\* time passes
Tick ==
  /\ clock < MaxTicks * HalfPeriod
  /\ clock' = clock + HalfPeriod
  /\ authDone' = NoAuthDone
  /\ logged' = {}
  /\ UNCHANGED <<cachedToken, cacheExpiry, authSecretsClient, authCalls>>

----------------------------------------------------------------------------
(* The Lambda handler: lambda-handler.ts *)

Handlers == 1..MaxHandlers

\* an event of API Gateway (httpMethod, path) or of a Function URL
\* (requestContext.http); an event of another shape has neither
ApiGatewayEvent(method, path, headers, body) ==
  [httpMethod |-> method, path |-> path, http |-> Undef, headers |-> headers,
   body |-> body]

FunctionUrlEvent(method, path, headers, body) ==
  [httpMethod |-> Undef, path |-> Undef,
   http |-> [t |-> "object", method |-> method, path |-> path],
   headers |-> headers, body |-> body]

OtherEvent(headers, body) ==
  [httpMethod |-> Undef, path |-> Undef, http |-> Undef, headers |-> headers,
   body |-> body]

NoEvent == OtherEvent(Undef, Null)

\* event.headers, with the two spellings the handler reads
EventHeaders(upper, lower) ==
  [t |-> "object", Authorization |-> upper, authorization |-> lower]

\* a body: its text and what JSON.parse makes of it
NotJson == [t |-> "string", s |-> <<"{not json">>, valid |-> FALSE, json |-> NoRequest]

JsonBody(req) == [t |-> "string", s |-> <<"{...}">>, valid |-> TRUE, json |-> req]

UnsupportedEventError == ErrorOf(<<"Unsupported event format">>)

\* getEventProperties(event)
getEventProperties(event) ==
  IF Truthy(event.httpMethod)
    THEN [ok |-> TRUE, method |-> event.httpMethod, path |-> event.path,
          headers |-> event.headers, body |-> event.body]
  ELSE IF event.http.t = "object" /\ Truthy(event.http.method)
    THEN [ok |-> TRUE, method |-> event.http.method,
          path |-> IF Truthy(event.http.path) THEN event.http.path ELSE Str(<<"/">>),
          headers |-> event.headers, body |-> event.body]
  ELSE [ok |-> FALSE, error |-> UnsupportedEventError]

\* `eventHeaders?.Authorization || eventHeaders?.authorization`
AuthHeaderOf(headers) ==
  IF headers.t # "object" THEN Undef
  ELSE IF Truthy(headers.Authorization) THEN headers.Authorization
  ELSE headers.authorization

\* the credentials a printout of the whole event holds
CredentialsIn(event) ==
  IF event.headers.t = "object"
       /\ (event.headers.Authorization # Undef \/ event.headers.authorization # Undef)
    THEN {"Authorization"}
    ELSE {}

DiscoveryPaths ==
  { Str(<<"/.well-known/oauth-authorization-server">>),
    Str(<<"/.well-known/openid_configuration">>) }

\* the `headers` constant of the handler
CorsHeaders ==
  ("Access-Control-Allow-Origin" :> <<"*">>)
    @@ ("Access-Control-Allow-Headers" :> <<"Content-Type,Authorization">>)
    @@ ("Access-Control-Allow-Methods" :> <<"GET,POST,OPTIONS">>)
    @@ ("Content-Type" :> <<"application/json">>)

LambdaResponse(status, body) ==
  [statusCode |-> status, headers |-> CorsHeaders, body |-> body]

\* `{...authError, headers: {...headers, ...authError.headers}}`
Unauthorized ==
  [statusCode |-> createAuthError.statusCode,
   headers |-> createAuthError.headers @@ CorsHeaders,
   body |-> createAuthError.body]

OAuthNotSupported ==
  LambdaResponse(404,
    [error |-> <<"OAuth discovery not supported. Use Basic token authentication.">>])

Healthy ==
  LambdaResponse(200,
    [status |-> <<"healthy">>, server |-> <<"openai-mcp-server-lambda">>,
     environment |-> <<"aws-lambda">>])

ServiceInfo ==
  LambdaResponse(200,
    [service |-> <<"OpenAI MCP Server">>, version |-> <<"1.0.0">>,
     protocolVersion |-> <<"2024-11-05">>,
     capabilities |-> {"tools", "logging", "prompts", "resources"}])

McpInfo ==
  LambdaResponse(200,
    [protocolVersion |-> <<"2024-11-05">>, capabilities |-> {"tools"},
     serverInfo |-> [name |-> <<"OpenAI MCP Server">>, version |-> <<"1.0.0">>]])

MethodNotAllowed == LambdaResponse(405, [error |-> <<"Method not allowed">>])

BodyRequired == LambdaResponse(400, [error |-> <<"Request body is required">>])

JsonSyntaxError == ErrorOf(<<"Unexpected token in JSON">>)

\* the catch block's response: the error's message, and its stack unless
\* NODE_ENV is 'production'
InternalError(message, production) ==
  LambdaResponse(500, [error |-> message, details |-> ~production])

\* what the catch block writes
CatchLines == {LogLine("Lambda handler error:", {}), LogLine("Error stack:", {})}

\* an invocation of the handler: where it stands, its event, and what
\* handleMcpRequest() handed back
IdleHandler == [pc |-> "idle", event |-> NoEvent, result |-> NoneDone]

NoLambdaDone ==
  [pc |-> "none", h |-> 0, event |-> NoEvent, resp |-> LambdaResponse(0, Null),
   auth |-> "none", dispatched |-> FALSE]

\* the handler returned resp; auth: validateAuthToken() was not called
\* ("none"), returned true ("passed") or false ("failed"); dispatched:
\* handleMcpRequest() was called
LambdaReturned(h, event, resp, auth, dispatched) ==
  [pc |-> "returned", h |-> h, event |-> event, resp |-> resp, auth |-> auth,
   dispatched |-> dispatched]

LambdaInit ==
  /\ initPromise = "none"
  /\ lam = [h \in Handlers |-> IdleHandler]
  /\ lamDone = NoLambdaDone

----------------------------------------------------------------------------
\* the steps of one module leave the others' results cleared
AppQuiet == done' = NoneDone /\ UNCHANGED <<sessionVars, tasks>>

AuthQuiet ==
  /\ authDone' = NoAuthDone
  /\ UNCHANGED <<cachedToken, cacheExpiry, authSecretsClient, clock, authCalls>>

EventLine(event) == LogLine("Event:", CredentialsIn(event))

ParsedLine == LogLine("Parsed:", {})

\* the handler returns resp to the runtime
Finish(h, resp, auth, dispatched) ==
  /\ lamDone' = LambdaReturned(h, lam[h].event, resp, auth, dispatched)
  /\ lam' = [lam EXCEPT ![h] = IdleHandler]

\* the handler goes on to position pc
Goto(h, pc) ==
  /\ lam' = [lam EXCEPT ![h].pc = pc]
  /\ lamDone' = NoLambdaDone

\* LambdaInvoke without `if (!initPromise)`: every invocation runs the
\* promise's body
LambdaInvokeUnmemoized(h, event) ==
  /\ lam[h].pc = "idle"
  /\ lam' = [lam EXCEPT ![h] = [pc |-> "initializing", event |-> event, result |-> NoneDone]]
  /\ lamDone' = NoLambdaDone
  /\ initPromise' = "pending"
  /\ logged' = {LogLine("Initializing app...", {})}
  /\ AppQuiet
  /\ AuthQuiet

\* the handler is invoked: ensureAppInitialized() creates the promise on the
\* first invocation, whose body goes on to call initializeApp(); every other
\* invocation awaits the promise it finds
LambdaInvoke(h, event) ==
  /\ lam[h].pc = "idle"
  /\ lamDone' = NoLambdaDone
  /\ IF initPromise = "none"
       THEN /\ initPromise' = "pending"
            /\ lam' = [lam EXCEPT ![h] =
                 [pc |-> "initializing", event |-> event, result |-> NoneDone]]
            /\ logged' = {LogLine("Initializing app...", {})}
       ELSE /\ UNCHANGED initPromise
            /\ lam' = [lam EXCEPT ![h] =
                 [pc |-> "awaitInit", event |-> event, result |-> NoneDone]]
            /\ logged' = {}
  /\ AppQuiet
  /\ AuthQuiet

\* the promise's body, run by invocation h, is at `await initializeApp()`;
\* initializeApp() is call h
InitRuns(h) == lam[h].pc = "initializing"

\* initializeApp() has ended; the promise of invocation h settles as it did,
\* and the invocation awaits it like the others
InitPromiseSettles(h) ==
  /\ InitRuns(h)
  /\ inits[h].pc \in {"returned", "thrown"}
  /\ IF inits[h].pc = "returned"
       THEN /\ initPromise' = "fulfilled"
            /\ logged' = {LogLine("App initialized successfully", {})}
       ELSE /\ initPromise' = "rejected"
            /\ logged' = {LogLine("Failed to initialize app:", {})}
  /\ Goto(h, "awaitInit")
  /\ AppQuiet
  /\ AuthQuiet

\* the message initializeApp() was rejected with
InitError == inits[CHOOSE c \in InitCalls : inits[c].pc = "thrown"].error

\* the handler resumes after `await ensureAppInitialized()`: the event is
\* printed and taken apart, the discovery paths are answered
LambdaAfterInit(h, production) ==
  /\ lam[h].pc = "awaitInit"
  /\ initPromise \in {"fulfilled", "rejected"}
  /\ LET p == getEventProperties(lam[h].event) IN
       IF initPromise = "rejected"
         THEN /\ Finish(h, InternalError(InitError, production), "none", FALSE)
              /\ logged' = CatchLines
       ELSE IF ~p.ok
         THEN /\ Finish(h, InternalError(MessageOf(p.error), production), "none", FALSE)
              /\ logged' = {EventLine(lam[h].event)} \cup CatchLines
       ELSE IF p.path \in DiscoveryPaths
         THEN /\ Finish(h, OAuthNotSupported, "none", FALSE)
              /\ logged' = {EventLine(lam[h].event), ParsedLine}
         ELSE /\ Goto(h, "authenticate")
              /\ logged' = {EventLine(lam[h].event), ParsedLine}
  /\ UNCHANGED initPromise
  /\ AppQuiet
  /\ AuthQuiet

\* `if (!isAuthenticated) return {...authError, ...}`, once validateAuthToken()
\* has returned; until then the handler awaits it
AfterAuth(h) ==
  IF authDone'.pc = "none" THEN Goto(h, "awaitAuth")
  ELSE IF authDone'.result THEN Goto(h, "route")
  ELSE Finish(h, Unauthorized, "failed", FALSE)

\* `await validateAuthToken(authHeader)`: the call
LambdaAuthenticate(h) ==
  /\ lam[h].pc = "authenticate"
  /\ ValidateAuthToken(h, AuthHeaderOf(getEventProperties(lam[h].event).headers))
  /\ AfterAuth(h)
  /\ UNCHANGED initPromise
  /\ AppQuiet

\* `await validateAuthToken(authHeader)`: the secret store answers
LambdaAuthSettles(h, o) ==
  /\ lam[h].pc = "awaitAuth"
  /\ AuthSecretSettles(h, o)
  /\ AfterAuth(h)
  /\ UNCHANGED initPromise
  /\ AppQuiet

\* the answers the handler gives without the dispatcher, in the order tested;
\* status 0: the body goes to handleMcpRequest()
Routed(p, production) ==
  IF p.method = Str(<<"OPTIONS">>) THEN LambdaResponse(200, Str(<<>>))
  ELSE IF p.method = Str(<<"GET">>) /\ p.path = Str(<<"/health">>) THEN Healthy
  ELSE IF p.method = Str(<<"GET">>) /\ p.path = Str(<<"/">>) THEN ServiceInfo
  ELSE IF p.method = Str(<<"GET">>) /\ p.path = Str(<<"/mcp/info">>) THEN McpInfo
  ELSE IF p.method # Str(<<"POST">>) THEN MethodNotAllowed
  ELSE IF ~Truthy(p.body) THEN BodyRequired
  ELSE IF ~p.body.valid THEN InternalError(MessageOf(JsonSyntaxError), production)
  ELSE LambdaResponse(0, Null)

\* the authenticated request is routed; a POST's body is parsed and handed to
\* handleMcpRequest(), which runs to its first await or to its end
LambdaRoute(h, production) ==
  /\ lam[h].pc = "route"
  /\ LET p == getEventProperties(lam[h].event)
         r == Routed(p, production)
     IN IF r.statusCode # 0
          THEN /\ Finish(h, r, "passed", FALSE)
               /\ logged' = IF r.statusCode = 500 THEN CatchLines ELSE {}
               /\ AppQuiet
          ELSE /\ HandleMcpRequest(h, p.body.json)
               /\ lam' = [lam EXCEPT
                    ![h].pc = IF done'.pc = "none" THEN "awaitUpstream" ELSE "settled",
                    ![h].result = done']
               /\ lamDone' = NoLambdaDone
  /\ UNCHANGED initPromise
  /\ AuthQuiet

\* the upstream call of the handler's request settles
LambdaUpstreamSettles(h, o) ==
  /\ lam[h].pc = "awaitUpstream"
  /\ UpstreamSettles(h, o)
  /\ lam' = [lam EXCEPT ![h].pc = "settled", ![h].result = done']
  /\ lamDone' = NoLambdaDone
  /\ UNCHANGED initPromise
  /\ AuthQuiet

\* the handler resumes after `await handleMcpRequest(requestBody)`
LambdaRespond(h, production) ==
  /\ lam[h].pc = "settled"
  /\ IF lam[h].result.pc = "returned"
       THEN /\ Finish(h, LambdaResponse(200, lam[h].result.resp), "passed", TRUE)
            /\ logged' = {}
       ELSE /\ Finish(h, InternalError(MessageOf(lam[h].result.thrown), production),
                      "passed", TRUE)
            /\ logged' = CatchLines
  /\ UNCHANGED initPromise
  /\ AppQuiet
  /\ AuthQuiet

----------------------------------------------------------------------------
(* The standalone server: server-entry.ts *)

\* `setTimeout(() => {...; process.exit(1)}, 5000)`, in milliseconds
ForceExitAfter == 5000

\* the step of the clock while the server runs
TickMs == ForceExitAfter \div 2

\* an HTTP request: req.method, req.url, req.headers.authorization and the
\* body the 'data' events add up to
HttpRequest(method, url, authorization, body) ==
  [method |-> method, url |-> url, authorization |-> authorization, body |-> body]

NoHttpRequest == HttpRequest(Undef, Undef, Undef, Null)

\* a request without a body: `let body = ''`
EmptyBody == [t |-> "string", s |-> <<>>, valid |-> FALSE, json |-> NoRequest]

\* `res.writeHead(status, ...); res.end(body)`
ServerResponse(status, body) == [statusCode |-> status, body |-> body]

NotFound == ServerResponse(404, [error |-> <<"Not found">>])

ServerHealthy(controller) ==
  ServerResponse(200,
    [status |-> <<"healthy">>, server |-> <<"openai-mcp-server">>,
     controller |-> controller])

\* the POST handler's catch block
ServerError(message) == ServerResponse(500, [error |-> message])

\* the process before its entry point has run. phase: "loading", "running",
\* "closing" once shutdown() was called, "exited"; pending: the events
\* 'uncaughtException' and 'unhandledRejection' not yet delivered; callbacks:
\* the callbacks handed to server.close(), each with whether it is handed an
\* error; timers: when the forced exits fall due; first: when shutdown() was
\* first called; code: the exit code; by: what called process.exit()
Loading ==
  [phase |-> "loading", useController |-> FALSE, connected |-> FALSE,
   listening |-> FALSE, pending |-> {}, callbacks |-> <<>>, timers |-> {},
   first |-> 0, code |-> -1, by |-> "none"]

\* a request of the server: where its handler stands, and what
\* handleMcpRequest() handed back; arrived, handed: where initializeApp()
\* stood when the request arrived and when its body was handed to
\* handleMcpRequest()
IdleConn ==
  [pc |-> "idle", req |-> NoHttpRequest, result |-> NoneDone, arrived |-> "none",
   handed |-> "none"]

NoConnDone ==
  [pc |-> "none", req |-> NoHttpRequest, resp |-> ServerResponse(0, Null),
   auth |-> "none", arrived |-> "none", handed |-> "none"]

ServerInit ==
  /\ proc = Loading
  /\ conn = IdleConn
  /\ connDone = NoConnDone

\* the process runs
Alive == proc.phase \in {"running", "closing"}

\* a step of the process that is not a step of a request's handler
ConnQuiet == connDone' = NoConnDone /\ UNCHANGED conn

\* shutdown() whose timer replaces the one before it
shutdownRestarting(p) ==
  [p EXCEPT !.phase = "closing",
            !.callbacks = Append(@, ~p.listening \/ p.phase = "closing"),
            !.timers = {clock + ForceExitAfter},
            !.first = IF p.phase = "closing" THEN @ ELSE clock]

\* shutdown(reason): server.close(callback) hands the callback an error when
\* the server is not running, which is so when listen() failed and after the
\* first close(); the timer is one more each time
shutdown(p) ==
  [p EXCEPT !.phase = "closing",
            !.callbacks = Append(@, ~p.listening \/ p.phase = "closing"),
            !.timers = @ \cup {clock + ForceExitAfter},
            !.first = IF p.phase = "closing" THEN @ ELSE clock]

\* the entry point has run to its end: the promise of initializeApp() is
\* not awaited, and when it is rejected nothing handles it; listen() fails with
\* an 'error' event no listener takes
Started(controller, listens) ==
  proc' = [Loading EXCEPT
    !.phase = "running",
    !.useController = controller,
    !.connected = controller,
    !.listening = listens,
    !.pending = (IF inits'[1].pc = "thrown" THEN {"unhandledRejection"} ELSE {})
                  \cup (IF listens THEN {} ELSE {"uncaughtException"})]

\* the entry point, the credential in config.json
ServerEntryFile(controller, listens, file) ==
  /\ proc.phase = "loading"
  /\ InitializeAppFile(1, file)
  /\ Started(controller, listens)
  /\ ConnQuiet
  /\ AuthQuiet

\* the entry point, the credential in the secret store: initializeApp() is
\* left at its await
ServerEntrySecret(controller, listens) ==
  /\ proc.phase = "loading"
  /\ InitializeAppSecret(1)
  /\ Started(controller, listens)
  /\ ConnQuiet
  /\ AuthQuiet

\* the secret store answers initializeApp()
ServerInitResumes(o) ==
  /\ Alive
  /\ InitializeAppResume(1, o)
  /\ proc' = [proc EXCEPT !.pending =
       IF inits'[1].pc = "thrown" THEN @ \cup {"unhandledRejection"} ELSE @]
  /\ ConnQuiet
  /\ AuthQuiet

\* the 'unhandledRejection' handler that only writes the rejection down
UnhandledRejectionLogged ==
  /\ Alive
  /\ "unhandledRejection" \in proc.pending
  /\ proc' = [proc EXCEPT !.pending = @ \ {"unhandledRejection"}]
  /\ logged' = {LogLine("Unhandled Rejection at:", {})}
  /\ ConnQuiet
  /\ AppQuiet
  /\ AuthQuiet

\* `process.on('unhandledRejection', ...)`
UnhandledRejection ==
  /\ Alive
  /\ "unhandledRejection" \in proc.pending
  /\ proc' = shutdown([proc EXCEPT !.pending = @ \ {"unhandledRejection"}])
  /\ logged' = {LogLine("Unhandled Rejection at:", {})}
  /\ ConnQuiet
  /\ AppQuiet
  /\ AuthQuiet

\* `process.on('uncaughtException', ...)`
UncaughtException ==
  /\ Alive
  /\ "uncaughtException" \in proc.pending
  /\ proc' = shutdown([proc EXCEPT !.pending = @ \ {"uncaughtException"}])
  /\ logged' = {LogLine("Uncaught Exception:", {})}
  /\ ConnQuiet
  /\ AppQuiet
  /\ AuthQuiet

\* a signal, when the server runs without the controller
Signal(sig) ==
  /\ Alive
  /\ ~proc.useController
  /\ Len(proc.callbacks) < MaxTriggers
  /\ proc' = shutdown(proc)
  /\ logged' = {}
  /\ ConnQuiet
  /\ AppQuiet
  /\ AuthQuiet

\* `process.on('message', ...)`, when the server runs under the controller
ControllerMessage(message) ==
  /\ Alive
  /\ proc.useController
  /\ proc.connected
  /\ Len(proc.callbacks) < MaxTriggers
  /\ proc' = IF message = "shutdown" THEN shutdown(proc) ELSE proc
  /\ logged' = {}
  /\ ConnQuiet
  /\ AppQuiet
  /\ AuthQuiet

\* `process.on('disconnect', ...)`
Disconnect ==
  /\ Alive
  /\ proc.useController
  /\ proc.connected
  /\ proc' = shutdown([proc EXCEPT !.connected = FALSE])
  /\ logged' = {}
  /\ ConnQuiet
  /\ AppQuiet
  /\ AuthQuiet

\* the server's 'close' event: the callbacks run in the order they were handed
\* in, and the first ends the process
ServerCloses ==
  /\ proc.phase = "closing"
  /\ proc' = [proc EXCEPT !.phase = "exited",
                          !.code = IF Head(proc.callbacks) THEN 1 ELSE 0,
                          !.by = "close"]
  /\ logged' = {}
  /\ ConnQuiet
  /\ AppQuiet
  /\ AuthQuiet

\* a timer of shutdown() falls due
ForceExit ==
  /\ proc.phase = "closing"
  /\ \E d \in proc.timers : clock >= d
  /\ proc' = [proc EXCEPT !.phase = "exited", !.code = 1, !.by = "timer"]
  /\ logged' = {LogLine("Force exit after timeout", {})}
  /\ ConnQuiet
  /\ AppQuiet
  /\ AuthQuiet

\* time passes, never beyond a timer that is due
ServerTick ==
  /\ Alive
  /\ clock < MaxServerTicks * TickMs \/ proc.phase = "closing"
  /\ \A d \in proc.timers : clock + TickMs <= d
  /\ clock' = clock + TickMs
  /\ authDone' = NoAuthDone
  /\ logged' = {}
  /\ UNCHANGED <<cachedToken, cacheExpiry, authSecretsClient, authCalls>>
  /\ UNCHANGED proc
  /\ ConnQuiet
  /\ AppQuiet

\* `res.end(...)`: the request is answered
Answer(resp, auth) ==
  /\ connDone' = [pc |-> "returned", req |-> conn.req, resp |-> resp, auth |-> auth,
                  arrived |-> conn.arrived, handed |-> conn.handed]
  /\ conn' = IdleConn

\* `if (!isAuthenticated) {...; return}`, once validateAuthToken() has
\* returned; until then the handler awaits it
ConnAfterAuth(req, arrived) ==
  IF authDone'.pc = "none"
    THEN /\ conn' = [IdleConn EXCEPT !.pc = "awaitAuth", !.req = req, !.arrived = arrived]
         /\ connDone' = NoConnDone
  ELSE IF authDone'.result
    THEN /\ conn' = [IdleConn EXCEPT !.pc = "route", !.req = req, !.arrived = arrived]
         /\ connDone' = NoConnDone
  ELSE /\ connDone' = [pc |-> "returned", req |-> req,
                       resp |-> ServerResponse(createAuthError.statusCode, createAuthError.body),
                       auth |-> "failed", arrived |-> arrived, handed |-> "none"]
       /\ conn' = IdleConn

\* a request arrives: `await validateAuthToken(authHeader)`, the call
Connect(req) ==
  /\ proc.phase = "running"
  /\ proc.listening
  /\ conn.pc = "idle"
  /\ ValidateAuthToken(1, req.authorization)
  /\ ConnAfterAuth(req, inits[1].pc)
  /\ UNCHANGED proc
  /\ AppQuiet

\* `await validateAuthToken(authHeader)`: the secret store answers
ConnAuthSettles(o) ==
  /\ Alive
  /\ conn.pc = "awaitAuth"
  /\ AuthSecretSettles(1, o)
  /\ ConnAfterAuth(conn.req, conn.arrived)
  /\ UNCHANGED proc
  /\ AppQuiet

\* the answers the server gives without the dispatcher, in the order tested;
\* status 0: the body goes to handleMcpRequest()
ServerRouted(req, controller) ==
  IF req.method = Str(<<"OPTIONS">>) THEN ServerResponse(200, Str(<<>>))
  ELSE IF req.method = Str(<<"GET">>) /\ req.url = Str(<<"/health">>)
    THEN ServerHealthy(controller)
  ELSE IF req.method # Str(<<"POST">>) THEN NotFound
  ELSE IF ~req.body.valid THEN ServerError(MessageOf(JsonSyntaxError))
  ELSE ServerResponse(0, Null)

\* the authenticated request is routed; at a POST's 'end' event its body is
\* parsed and handed to handleMcpRequest(), which runs to its first await or
\* to its end
ConnRoute ==
  /\ Alive
  /\ conn.pc = "route"
  /\ LET r == ServerRouted(conn.req, proc.useController)
     IN IF r.statusCode # 0
          THEN /\ Answer(r, "passed")
               /\ logged' = {}
               /\ AppQuiet
          ELSE /\ HandleMcpRequest(1, conn.req.body.json)
               /\ conn' = [conn EXCEPT
                    !.pc = IF done'.pc = "none" THEN "awaitUpstream" ELSE "settled",
                    !.result = done',
                    !.handed = inits[1].pc]
               /\ connDone' = NoConnDone
  /\ UNCHANGED proc
  /\ AuthQuiet

\* the upstream call of the server's request settles
ConnUpstreamSettles(o) ==
  /\ Alive
  /\ conn.pc = "awaitUpstream"
  /\ UpstreamSettles(1, o)
  /\ conn' = [conn EXCEPT !.pc = "settled", !.result = done']
  /\ connDone' = NoConnDone
  /\ UNCHANGED proc
  /\ AuthQuiet

\* the POST handler resumes after `await handleMcpRequest(requestData)`
ConnRespond ==
  /\ Alive
  /\ conn.pc = "settled"
  /\ IF conn.result.pc = "returned"
       THEN Answer(ServerResponse(200, conn.result.resp), "passed")
       ELSE Answer(ServerError(MessageOf(conn.result.thrown)), "passed")
  /\ logged' = {}
  /\ UNCHANGED proc
  /\ AppQuiet
  /\ AuthQuiet

----------------------------------------------------------------------------
(* The program *)

Init ==
  /\ SessionInit
  /\ tasks = [k \in Tasks |-> IdleTask]
  /\ done = NoneDone
  /\ AuthInit
  /\ LambdaInit
  /\ ServerInit
  /\ logged = {}

Outcomes == ResponsesOutcomes \cup ChatOutcomes

\* the session's life: any number of initializeApp() calls, in any interleaving,
\* and requests handled one at a time
Next ==
  \/ \E c \in InitCalls : InitializeAppAgain(c) /\ UNCHANGED boundaryVars
  \/ \E c \in InitCalls, file \in ConfigFiles : InitializeAppFile(c, file) /\ UNCHANGED boundaryVars
  \/ \E c \in InitCalls : InitializeAppSecret(c) /\ UNCHANGED boundaryVars
  \/ \E c \in InitCalls, o \in SecretOutcomes : InitializeAppResume(c, o) /\ UNCHANGED boundaryVars
  \/ \E req \in DispatchRequests : HandleMcpRequest(1, req) /\ UNCHANGED boundaryVars
  \/ \E o \in Outcomes : UpstreamSettles(1, o) /\ UNCHANGED boundaryVars

Spec == Init /\ [][Next]_vars

\* the dispatcher: one initializeApp() call, then requests handled concurrently
DispatchNext ==
  \/ \E file \in ConfigFiles : InitializeAppFile(1, file) /\ UNCHANGED boundaryVars
  \/ InitializeAppSecret(1) /\ UNCHANGED boundaryVars
  \/ \E o \in SecretOutcomes : InitializeAppResume(1, o) /\ UNCHANGED boundaryVars
  \/ \E k \in Tasks, req \in DispatchRequests : HandleMcpRequest(k, req) /\ UNCHANGED boundaryVars
  \/ \E k \in Tasks, o \in Outcomes : UpstreamSettles(k, o) /\ UNCHANGED boundaryVars

DispatchSpec == Init /\ [][DispatchNext]_vars

\* the call strategy: one initializeApp() call, then tools/call requests with
\* every combination of arguments, one at a time
StrategyNext ==
  \/ \E file \in ConfigFiles : InitializeAppFile(1, file) /\ UNCHANGED boundaryVars
  \/ InitializeAppSecret(1) /\ UNCHANGED boundaryVars
  \/ \E o \in SecretOutcomes : InitializeAppResume(1, o) /\ UNCHANGED boundaryVars
  \/ \E req \in StrategyRequests : HandleMcpRequest(1, req) /\ UNCHANGED boundaryVars
  \/ \E o \in Outcomes : UpstreamSettles(1, o) /\ UNCHANGED boundaryVars

StrategySpec == Init /\ [][StrategyNext]_vars

\* the credentials clients encode
AdminPw == <<"a", "d", "m", "i", "n", ":", "p", "w">>

Plains ==
  { AdminPw,
    <<"a", "d", "m", "i", "n", ":", "p", "x">>,
    <<"a", "d", "m", "i", "n", ":", "p", ":", "w">>,
    <<"a", "d", "m", "i", "n", ":", "p", "w", ":", "x">>,
    <<"r", "o", "o", "t", ":", "p", "w">>,
    <<"a", "d", "m", "i", "n">>,
    <<"a", "d", "m", "i", "n", ":">>,
    <<"a", "d", "m", "i", "n", ":", " ", "p", "w", " ">> }

\* spellings of the scheme and of the blank after it
BasicSchemes ==
  { <<"B", "a", "s", "i", "c", " ">>, <<"b", "a", "s", "i", "c", " ">>,
    <<"B", "a", "s", "i", "c", " ", " ">> }

Bearer == Str(<<"B", "e", "a", "r", "e", "r", " ", "s", "o", "m", "e", "-", "t", "o", "k", "e", "n">>)

\* 'Basic !!!': no character of the payload belongs to base64
Undecodable == Str(<<"B", "a", "s", "i", "c", " ", "!", "!", "!">>)

\* 'Basic' and the payload with no blank between them
Unseparated == Str(<<"B", "a", "s", "i", "c">> \o Base64Encode(AdminPw))

BasicHeader(scheme, plain) == Str(scheme \o Base64Encode(plain))

AuthHeaders ==
  {Undef, Str(<<>>), Bearer, Undecodable, Unseparated}
    \cup { BasicHeader(<<"B", "a", "s", "i", "c", " ">>, plain) : plain \in Plains }
    \cup { BasicHeader(scheme, AdminPw) : scheme \in BasicSchemes }

AuthSecretOutcomes ==
  { AuthSecretRejection,
    AuthSecret(Undef, FALSE, Undef, Undef),
    AuthSecret(Str(<<>>), FALSE, Undef, Undef),
    AuthSecret(Str(<<"not json">>), FALSE, Undef, Undef),
    AuthSecret(Str(<<"{}">>), TRUE, Undef, Undef),
    AuthSecret(Str(<<"{password:5}">>), TRUE, Num(5), Undef),
    AuthSecret(Str(<<"{password:'',token:'pw'}">>), TRUE, Str(<<>>), Str(<<"p", "w">>)),
    AuthSecret(Str(<<"{password:'pw'}">>), TRUE, Str(<<"p", "w">>), Undef),
    AuthSecret(Str(<<"{token:' pw '}">>), TRUE, Undef, Str(<<" ", "p", "w", " ">>)),
    AuthSecret(Str(<<"{password:'p:w'}">>), TRUE, Str(<<"p", ":", "w">>), Undef),
    AuthSecret(Str(<<"{password:'  '}">>), TRUE, Str(<<" ", " ">>), Undef) }

\* the authentication gate alone: validateAuthToken() calls one at a time,
\* with every header and every answer of the secret store
AuthNext ==
  \/ \E h \in AuthHeaders : ValidateAuthToken(1, h) /\ UNCHANGED <<appVars, lambdaVars, serverVars>>
  \/ \E o \in AuthSecretOutcomes : AuthSecretSettles(1, o) /\ UNCHANGED <<appVars, lambdaVars, serverVars>>

AuthSpec == Init /\ [][AuthNext]_vars

\* the cache's runs: a request without credentials, the right password, a
\* wrong one and one that goes on after the right one; a store that fails, answers, answers with a rotated password or
\* with blanks only
CacheHeaders ==
  { Undef, BasicHeader(<<"B", "a", "s", "i", "c", " ">>, AdminPw),
    BasicHeader(<<"B", "a", "s", "i", "c", " ">>, <<"a", "d", "m", "i", "n", ":", "p", "x">>),
    BasicHeader(<<"B", "a", "s", "i", "c", " ">>,
                <<"a", "d", "m", "i", "n", ":", "p", "w", ":", "x">>) }

CacheOutcomes ==
  { AuthSecretRejection,
    AuthSecret(Str(<<"{password:'pw'}">>), TRUE, Str(<<"p", "w">>), Undef),
    AuthSecret(Str(<<"{token:' px '}">>), TRUE, Undef, Str(<<" ", "p", "x", " ">>)),
    AuthSecret(Str(<<"{password:'  '}">>), TRUE, Str(<<" ", " ">>), Undef) }

\* the password cache over time: validateAuthToken() calls in any
\* interleaving while the clock advances
CacheNext ==
  \/ \E c \in AuthCalls, h \in CacheHeaders :
       ValidateAuthToken(c, h) /\ UNCHANGED <<appVars, lambdaVars, serverVars>>
  \/ \E c \in AuthCalls, o \in CacheOutcomes :
       AuthSecretSettles(c, o) /\ UNCHANGED <<appVars, lambdaVars, serverVars>>
  \/ Tick /\ UNCHANGED <<appVars, lambdaVars, serverVars>>

CacheSpec == Init /\ [][CacheNext]_vars

\* the events the runtime hands to the handler
GoodHeader == BasicHeader(<<"B", "a", "s", "i", "c", " ">>, AdminPw)

BadHeader ==
  BasicHeader(<<"B", "a", "s", "i", "c", " ">>, <<"a", "d", "m", "i", "n", ":", "p", "x">>)

HttpMethods == {Str(<<"GET">>), Str(<<"POST">>), Str(<<"OPTIONS">>), Str(<<"DELETE">>)}

Paths ==
  {Str(<<"/">>), Str(<<"/health">>), Str(<<"/mcp/info">>), Str(<<"/other">>)}
    \cup DiscoveryPaths

HeaderSets ==
  { Undef, EventHeaders(Undef, Undef), EventHeaders(GoodHeader, Undef),
    EventHeaders(Undef, GoodHeader), EventHeaders(BadHeader, Undef),
    EventHeaders(BadHeader, GoodHeader) }

Ping == McpRequest(Num(7), <<"ping">>, Undef)

Bodies ==
  { Null, Str(<<>>), NotJson, JsonBody(Ping),
    JsonBody(McpRequest(Num(7), <<"tools/call">>,
      Params(Str(<<"query_openai">>),
             Arguments(Prompt, Undef, Undef, Undef, Undef, Undef, Undef)))),
    JsonBody(McpRequest(Num(7), <<"tools/call">>, Params(Str(<<"query_openai">>), Undef))) }

LambdaEvents ==
  { ApiGatewayEvent(m, p, EventHeaders(GoodHeader, Undef), b) :
      m \in HttpMethods, p \in Paths, b \in {Null, JsonBody(Ping)} }
    \cup { ApiGatewayEvent(Str(<<"POST">>), Str(<<"/">>), hs, JsonBody(Ping)) : hs \in HeaderSets }
    \cup { FunctionUrlEvent(Str(<<"POST">>), p, hs, JsonBody(Ping)) :
             p \in {Str(<<"/">>), Undef}, hs \in {Undef, EventHeaders(Undef, GoodHeader)} }
    \cup { ApiGatewayEvent(Str(<<"POST">>), Str(<<"/">>), EventHeaders(GoodHeader, Undef), b) :
             b \in Bodies }
    \cup { OtherEvent(hs, Null) : hs \in {Undef, EventHeaders(GoodHeader, Undef)} }
    \cup { ApiGatewayEvent(Str(<<"GET">>), p, Undef, Null) : p \in DiscoveryPaths }

LambdaAuthOutcomes ==
  {AuthSecretRejection, AuthSecret(Str(<<"{password:'pw'}">>), TRUE, Str(<<"p", "w">>), Undef)}

\* the Lambda handler: invocations one at a time; initializeApp() runs once,
\* inside the memoized promise
LambdaNext ==
  \/ \E event \in LambdaEvents : LambdaInvoke(1, event) /\ UNCHANGED serverVars
  \/ \E file \in ConfigFiles :
       InitRuns(1) /\ InitializeAppFile(1, file) /\ UNCHANGED boundaryVars
  \/ InitRuns(1) /\ InitializeAppSecret(1) /\ UNCHANGED boundaryVars
  \/ \E o \in SecretOutcomes :
       InitRuns(1) /\ InitializeAppResume(1, o) /\ UNCHANGED boundaryVars
  \/ InitPromiseSettles(1) /\ UNCHANGED serverVars
  \/ \E production \in BOOLEAN : LambdaAfterInit(1, production) /\ UNCHANGED serverVars
  \/ LambdaAuthenticate(1) /\ UNCHANGED serverVars
  \/ \E o \in LambdaAuthOutcomes : LambdaAuthSettles(1, o) /\ UNCHANGED serverVars
  \/ \E production \in BOOLEAN : LambdaRoute(1, production) /\ UNCHANGED serverVars
  \/ \E o \in Outcomes : LambdaUpstreamSettles(1, o) /\ UNCHANGED serverVars
  \/ \E production \in BOOLEAN : LambdaRespond(1, production) /\ UNCHANGED serverVars

LambdaSpec == Init /\ [][LambdaNext]_vars

\* the events of the cold start's runs: a tools/call with credentials and a
\* ping without
ColdStartEvents ==
  { ApiGatewayEvent(Str(<<"POST">>), Str(<<"/">>), EventHeaders(GoodHeader, Undef),
      JsonBody(McpRequest(Num(7), <<"tools/call">>,
        Params(Str(<<"query_openai">>),
               Arguments(Prompt, Undef, Undef, Undef, Undef, Undef, Undef))))),
    ApiGatewayEvent(Str(<<"POST">>), Str(<<"/">>), EventHeaders(Undef, Undef),
      JsonBody(Ping)) }

\* the cold start: invocations of the handler in any interleaving, each free to
\* arrive before, while or after the promise settles
ColdStartNext ==
  \/ \E h \in Handlers, event \in ColdStartEvents : LambdaInvoke(h, event) /\ UNCHANGED serverVars
  \/ \E h \in Handlers, file \in ConfigFiles :
       InitRuns(h) /\ InitializeAppFile(h, file) /\ UNCHANGED boundaryVars
  \/ \E h \in Handlers : InitRuns(h) /\ InitializeAppSecret(h) /\ UNCHANGED boundaryVars
  \/ \E h \in Handlers, o \in SecretOutcomes :
       InitRuns(h) /\ InitializeAppResume(h, o) /\ UNCHANGED boundaryVars
  \/ \E h \in Handlers : InitPromiseSettles(h) /\ UNCHANGED serverVars
  \/ \E h \in Handlers, production \in BOOLEAN : LambdaAfterInit(h, production) /\ UNCHANGED serverVars
  \/ \E h \in Handlers : LambdaAuthenticate(h) /\ UNCHANGED serverVars
  \/ \E h \in Handlers, o \in LambdaAuthOutcomes : LambdaAuthSettles(h, o) /\ UNCHANGED serverVars
  \/ \E h \in Handlers, production \in BOOLEAN : LambdaRoute(h, production) /\ UNCHANGED serverVars
  \/ \E h \in Handlers, o \in Outcomes : LambdaUpstreamSettles(h, o) /\ UNCHANGED serverVars
  \/ \E h \in Handlers, production \in BOOLEAN : LambdaRespond(h, production) /\ UNCHANGED serverVars

ColdStartSpec == Init /\ [][ColdStartNext]_vars

\* the requests the server is sent
ServerRequests ==
  { HttpRequest(Str(<<"POST">>), Str(<<"/mcp">>), GoodHeader,
      JsonBody(McpRequest(Num(7), <<"tools/call">>,
        Params(Str(<<"query_openai">>),
               Arguments(Prompt, Undef, Undef, Undef, Undef, Undef, Undef))))),
    HttpRequest(Str(<<"POST">>), Str(<<"/">>), BadHeader, JsonBody(Ping)),
    HttpRequest(Str(<<"GET">>), Str(<<"/health">>), GoodHeader, EmptyBody) }

\* config.json and the secret store as the server finds them: without the
\* credential and with it
ServerFiles == {f \in ConfigFiles : ~f.exists \/ Truthy(f.openaiApiKey)}

ServerSecrets == {o \in SecretOutcomes : o.rejects \/ Truthy(o.apiKey)}

\* what the upstream call of the server's request comes to
ServerOutcomes ==
  {o \in ResponsesOutcomes : IF o.rejects THEN o.error.isError ELSE Truthy(o.body.output_text)}

Signals == {"SIGINT", "SIGTERM", "SIGQUIT"}

Messages == {"shutdown", "status"}

\* the standalone server: one process from its entry point to its exit,
\* serving one request at a time
ServerNext ==
  \/ \E controller \in BOOLEAN, listens \in BOOLEAN, file \in ServerFiles :
       ServerEntryFile(controller, listens, file) /\ UNCHANGED lambdaVars
  \/ \E controller \in BOOLEAN, listens \in BOOLEAN :
       ServerEntrySecret(controller, listens) /\ UNCHANGED lambdaVars
  \/ \E o \in ServerSecrets : ServerInitResumes(o) /\ UNCHANGED lambdaVars
  \/ UnhandledRejection /\ UNCHANGED lambdaVars
  \/ UncaughtException /\ UNCHANGED lambdaVars
  \/ \E sig \in Signals : Signal(sig) /\ UNCHANGED lambdaVars
  \/ \E message \in Messages : ControllerMessage(message) /\ UNCHANGED lambdaVars
  \/ Disconnect /\ UNCHANGED lambdaVars
  \/ ServerCloses /\ UNCHANGED lambdaVars
  \/ ForceExit /\ UNCHANGED lambdaVars
  \/ ServerTick /\ UNCHANGED lambdaVars
  \/ \E req \in ServerRequests : Connect(req) /\ UNCHANGED lambdaVars
  \/ \E o \in LambdaAuthOutcomes : ConnAuthSettles(o) /\ UNCHANGED lambdaVars
  \/ ConnRoute /\ UNCHANGED lambdaVars
  \/ \E o \in ServerOutcomes : ConnUpstreamSettles(o) /\ UNCHANGED lambdaVars
  \/ ConnRespond /\ UNCHANGED lambdaVars

ServerSpec == Init /\ [][ServerNext]_vars

\* the event loop delivers the events it holds, time passes and the timers
\* that are due fire; when the server's 'close' event comes is left open
ServerFairSpec ==
  /\ ServerSpec
  /\ WF_vars(UnhandledRejection /\ UNCHANGED lambdaVars)
  /\ WF_vars(UncaughtException /\ UNCHANGED lambdaVars)
  /\ WF_vars(ServerTick /\ UNCHANGED lambdaVars)
  /\ WF_vars(ForceExit /\ UNCHANGED lambdaVars)

----------------------------------------------------------------------------
(* Properties of the dispatcher *)

IsAck(req) == req.method = <<"notifications/initialized">> /\ req.id = Undef

\* the text a response carries, if it carries a content result
TextOf(resp) == resp.result.content[1].text

\* C1: every response handleMcpRequest returns carries the id of its own
\* request, whatever the method and however the upstream call ended;
\* notifications/initialized without an id is answered by the empty object;
\* and the response of a tools/call carries the outcome of its own upstream
\* call, also while other requests are in flight.
C1_IdEcho ==
  done.pc = "returned" =>
    /\ IF IsAck(done.req)
         THEN done.resp.keys = {}
         ELSE "id" \in done.resp.keys /\ done.resp.id = done.req.id
    /\ done.calls # <<>> =>
         /\ done.upstream.rejects => "error" \in done.resp.keys
         /\ (done.upstream.rejects /\ done.upstream.error.isError) =>
              Contains(done.resp.error.message, done.upstream.error.message)
         /\ (~done.upstream.rejects /\ done.calls[1].api = "responses"
               /\ Truthy(done.upstream.body.output_text)) =>
              TextOf(done.resp) = done.upstream.body.output_text

\* a tools/call with an id ended with an upstream failure while a request
\* with another id was still awaiting its own upstream call
C1_Witness ==
  /\ done.pc = "returned"
  /\ done.req.id = Str(<<>>)
  /\ done.upstream.rejects
  /\ \E k \in Tasks :
       /\ k # done.k
       /\ tasks[k].pc = "awaitUpstream"
       /\ tasks[k].req.id = Num(0)

\* C2 (as claimed): once Ready, every invocation of handleMcpRequest ends
\* with a response; none throws or rejects.
C2_NeverRejects == (initialized /\ done.pc # "none") => done.pc = "returned"

\* C3: a response carries exactly one of result and error, except the empty
\* object that answers notifications/initialized without an id.
C3_ResultXorError ==
  done.pc = "returned" =>
    IF IsAck(done.req)
      THEN done.resp.keys = {}
      ELSE ("result" \in done.resp.keys) # ("error" \in done.resp.keys)

\* notifications/initialized with an id was answered with a result
C3_Witness ==
  /\ done.pc = "returned"
  /\ done.req.method = <<"notifications/initialized">>
  /\ done.req.id = Num(0)
  /\ done.resp.keys = {"jsonrpc", "id", "result"}

----------------------------------------------------------------------------
(* Properties of the session *)

\* C4: while the session is not Ready (initializeApp not called, in progress
\* or failed), no invocation of handleMcpRequest returns a response: each is
\* rejected with 'App not initialized', and no upstream call is in flight.
C4_NotInitialized ==
  ~initialized =>
    /\ done.pc # "returned"
    /\ done.pc = "rejected" =>
         /\ done.thrown.isError
         /\ StartsWith(done.thrown.message, <<"App not initialized">>)
    /\ \A k \in Tasks : tasks[k].pc = "idle" /\ tasks[k].calls = <<>>

\* a tools/call was rejected while one initializeApp() call had failed and
\* another was still waiting for the secret store
C4_Witness ==
  /\ ~initialized
  /\ done.pc = "rejected"
  /\ done.req.method = <<"tools/call">>
  /\ ParamsName(done.req) = Str(<<"query_openai">>)
  /\ \E c \in InitCalls : inits[c].pc = "thrown"
  /\ \E c \in InitCalls : inits[c].pc = "awaitSecret"

\* C5: an initializeApp() call made after initialization succeeded returns at
\* once: it reads no config file, sends nothing to the secret store, builds
\* no client and leaves the client handle and the flag as they were.
C5_Idempotent ==
  [][\A c \in InitCalls :
       (initialized /\ inits[c].pc = "idle" /\ inits'[c].pc # "idle") =>
         /\ inits'[c].pc = "returned"
         /\ inits'[c].built = 0
         /\ UNCHANGED <<initialized, openai, secretsClient, configReads,
                        secretSends, clientsBuilt>>]_vars

\* a second call returned after the first had built the client, which is
\* still the one installed
C5_Witness ==
  /\ initialized
  /\ \E c, e \in InitCalls :
       /\ inits[c].pc = "returned" /\ inits[c].built = 1
       /\ inits[e].pc = "returned" /\ inits[e].built = 0
       /\ openai.n = 1
       /\ clientsBuilt = 1

\* the credential sources the claim names as failing
BadFile(file) == ~file.exists \/ file.openaiApiKey \in {Undef, Str(<<>>)}

BadSecret(o) ==
  o.rejects \/ o.SecretString \in {Undef, Str(<<>>)} \/ o.apiKey.t # "string"

C6_State ==
  /\ \A c \in InitCalls :
       /\ (inits[c].source.kind = "file" /\ BadFile(inits[c].source.file)) =>
            inits[c].pc = "thrown"
       /\ (inits[c].source.kind = "secret" /\ BadSecret(inits[c].source.secret)) =>
            inits[c].pc = "thrown"
       /\ inits[c].pc = "thrown" =>
            /\ StartsWith(inits[c].error, <<"Failed to initialize app: ">>)
            /\ inits[c].built = 0
  /\ (\A c \in InitCalls : inits[c].built = 0) =>
       /\ ~initialized
       /\ openai = NoClient
       /\ done.pc # "returned"

C6_Step ==
  \A c \in InitCalls :
    /\ (inits[c].pc # "thrown" /\ inits'[c].pc = "thrown") =>
         UNCHANGED <<initialized, openai, clientsBuilt>>
    /\ (~initialized /\ inits[c].pc = "idle" /\ inits'[c].pc # "idle") =>
         configReads' + secretSends' = configReads + secretSends + 1

\* C6: an initializeApp() call whose credential resolution fails (no config
\* file, openaiApiKey missing or empty, secret-store request failing, secret
\* value empty, secret without a string apiKey) throws 'Failed to initialize
\* app: ...' and changes neither the flag nor the client; as long as no call
\* has succeeded the flag is false, no client is installed and no request is
\* answered; and every call made while the flag is false resolves the
\* credential again, whatever failed before.
C6_FailureLeavesUninitialized == []C6_State /\ [][C6_Step]_vars

\* two calls failed one after the other, each having asked the secret store,
\* and a request made afterwards was rejected
C6_Witness ==
  /\ secretSends = 2
  /\ \A c \in {1, 2} : inits[c].pc = "thrown"
  /\ inits[1].source.secret.rejects
  /\ ~inits[2].source.secret.rejects
  /\ ~initialized
  /\ done.pc = "rejected"

\* C7 (as claimed): whatever the interleaving of initializeApp() calls, the
\* client handle is created once.
C7_CreatedOnce == clientsBuilt <= 1

----------------------------------------------------------------------------
(* Properties of the call strategy *)

\* the tools/call requests for query_openai in view, handled while Ready:
\* those awaiting their upstream call and the one that has just ended
Seen ==
  { [req |-> tasks[k].req, calls |-> tasks[k].calls, ended |-> FALSE] :
      k \in {j \in Tasks : tasks[j].pc = "awaitUpstream"} }
    \cup { [req |-> done.req, calls |-> done.calls, ended |-> TRUE] :
             x \in {y \in {1} : done.pc # "none" /\ initialized /\ IsQueryOpenai(done.req)} }

ArgsOf(q) == q.req.params.arguments

\* arguments are an object whose model is a string or is left out
WellFormed(a) == a.t = "object" /\ a.model.t \in {"undefined", "string"}

\* the model in effect starts with g, p, t, -, 5
Gpt5Family(a) ==
  \/ a.model = Undef
  \/ /\ a.model.t = "string"
     /\ Len(a.model.s) >= 5
     /\ a.model.s[1] = "g" /\ a.model.s[2] = "p" /\ a.model.s[3] = "t"
     /\ a.model.s[4] = "-" /\ a.model.s[5] = "5"

WantsResponses(a) == Gpt5Family(a) /\ a.use_responses_api \in {Undef, Bool(TRUE)}

\* C8 (as claimed), read on the requests that carry an arguments object:
\* every tools/call to query_openai calls exactly one API: responses if and
\* only if the model starts with 'gpt-5' and use_responses_api is true or
\* omitted, chat completions in every other case.
C8_CallShape ==
  \A q \in Seen :
    ArgsOf(q).t = "object" =>
      /\ Len(q.calls) = 1
      /\ q.calls[1].api = (IF WantsResponses(ArgsOf(q)) THEN "responses" ELSE "chat")

\* C8 (amended): with arguments present and a model that is a string or
\* omitted, exactly one API is called, and when use_responses_api is a
\* boolean or omitted it is the responses API if and only if the model starts
\* with 'gpt-5' and use_responses_api is true or omitted, chat completions
\* otherwise; without arguments or with a model that is no string, none is.
C8_CallShapeTyped ==
  \A q \in Seen :
    IF WellFormed(ArgsOf(q))
      THEN /\ Len(q.calls) = 1
           /\ q.calls[1].api \in {"responses", "chat"}
           /\ ArgsOf(q).use_responses_api \in {Undef, Bool(TRUE), Bool(FALSE)} =>
                (q.calls[1].api = "responses" <=> WantsResponses(ArgsOf(q)))
      ELSE q.calls = <<>> /\ q.ended

\* a model that differs from 'gpt-5' in case only went to chat completions
\* although use_responses_api was true
C8_Witness ==
  \E q \in Seen :
    /\ ArgsOf(q).t = "object"
    /\ ArgsOf(q).model = Str(<<"G", "P", "T", "-", "5">>)
    /\ ArgsOf(q).use_responses_api = Bool(TRUE)
    /\ q.calls # <<>>
    /\ q.calls[1].api = "chat"

\* C9: the payload sent for a model that does not start with 'gpt-5' holds
\* model, messages and one token ceiling, and neither reasoning_effort nor
\* verbosity, whatever the caller supplied.
C9_NoReasoningFields ==
  \A q \in Seen :
    (q.calls # <<>> /\ ~Gpt5Family(ArgsOf(q))) =>
      /\ q.calls[1].api = "chat"
      /\ DOMAIN q.calls[1].payload \in
           { {"model", "messages", "max_tokens"},
             {"model", "messages", "max_completion_tokens"} }

\* a call for gpt-4 whose caller supplied reasoning_effort and verbosity
C9_Witness ==
  \E q \in Seen :
    /\ q.calls # <<>>
    /\ ArgsOf(q).model = GPT4
    /\ ArgsOf(q).reasoning_effort = Str(<<"high">>)
    /\ ArgsOf(q).verbosity = Str(<<"low">>)

TokenFields == {"max_tokens", "max_completion_tokens"}

\* the one token ceiling of a payload, by the rule of the claim
OneCeiling(a, payload) ==
  IF a.max_completion_tokens # Undef
    THEN /\ DOMAIN payload \cap TokenFields = {"max_completion_tokens"}
         /\ payload.max_completion_tokens = a.max_completion_tokens
    ELSE /\ DOMAIN payload \cap TokenFields = {"max_tokens"}
         /\ payload.max_tokens =
              (IF a.max_tokens = Undef THEN Num(1000) ELSE a.max_tokens)

\* C10 (as claimed): every upstream payload, of either API, holds exactly one
\* token ceiling.
C10_OneCeiling ==
  \A q \in Seen : q.calls # <<>> => OneCeiling(ArgsOf(q), q.calls[1].payload)

\* C10 (amended): every chat-completions payload holds exactly one token
\* ceiling: max_completion_tokens when the caller supplied it, otherwise
\* max_tokens (1000 when the caller supplied neither); a responses payload
\* holds neither.
C10_OneCeilingChat ==
  \A q \in Seen :
    q.calls # <<>> =>
      IF q.calls[1].api = "chat"
        THEN OneCeiling(ArgsOf(q), q.calls[1].payload)
        ELSE DOMAIN q.calls[1].payload \cap TokenFields = {}

\* a chat-completions call for a gpt-5 model whose caller supplied both
C10_Witness ==
  \E q \in Seen :
    /\ q.calls # <<>>
    /\ q.calls[1].api = "chat"
    /\ ArgsOf(q).model = GPT52
    /\ ArgsOf(q).max_tokens = Num(100)
    /\ ArgsOf(q).max_completion_tokens = Num(2000)

----------------------------------------------------------------------------
(* Properties of the dispatcher's error paths and of tools/list *)

\* the invocation that has just ended made an upstream call that threw
UpstreamFailed == done.pc = "returned" /\ done.upstream.rejects

C12_State ==
  UpstreamFailed =>
    /\ done.resp.keys = {"jsonrpc", "id", "error"}
    /\ done.resp.id = done.req.id
    /\ done.resp.error.code = -32603
    /\ done.upstream.error.isError =>
         Contains(done.resp.error.message, done.upstream.error.message)
    /\ initialized

C12_Step ==
  UpstreamFailed' =>
    /\ UNCHANGED sessionVars
    /\ \A j \in Tasks \ {done'.k} : tasks'[j] = tasks[j]
    /\ tasks'[done'.k] = IdleTask

\* C12: when the upstream call throws, the response carries the request's id
\* and an error with code -32603 whose message contains the upstream error's
\* message, and no result; the session stays Ready, and the failure changes
\* nothing that a following request reads: the session's state and the other
\* invocations are as they were.
C12_FailureContained == []C12_State /\ [][C12_Step]_vars

\* an upstream call has thrown an Error while another request is in flight
C12_Witness ==
  /\ UpstreamFailed
  /\ done.upstream.error.isError
  /\ done.req.id = Num(7)
  /\ \E j \in Tasks : tasks[j].pc = "awaitUpstream"

\* C13: a tools/call whose arguments hold only prompt calls the responses API
\* exactly once, with exactly model 'gpt-5.2', input the prompt, reasoning
\* effort 'medium' and text verbosity 'medium', and makes no chat call.
C13_DefaultPayload ==
  \A q \in Seen :
    ArgsOf(q) = Arguments(Prompt, Undef, Undef, Undef, Undef, Undef, Undef) =>
      /\ Len(q.calls) = 1
      /\ q.calls[1].api = "responses"
      /\ q.calls[1].payload =
           [model |-> GPT52, input |-> Prompt,
            reasoning |-> [effort |-> Str(<<"medium">>)],
            text |-> [verbosity |-> Str(<<"medium">>)]]

ToolProperties ==
  {"prompt", "model", "max_tokens", "max_completion_tokens", "reasoning_effort",
   "verbosity", "use_responses_api"}

\* C19: in every Ready state, tools/list returns a result with exactly one
\* tool, named query_openai, whose inputSchema has exactly the seven
\* properties and required ['prompt']; no upstream call is made for it.
C19_ToolsList ==
  /\ (done.pc # "none" /\ initialized /\ done.req.method = <<"tools/list">>) =>
       /\ done.pc = "returned"
       /\ done.calls = <<>>
       /\ done.resp.keys = {"jsonrpc", "id", "result"}
       /\ Len(done.resp.result.tools) = 1
       /\ done.resp.result.tools[1].name = Str(<<"query_openai">>)
       /\ DOMAIN done.resp.result.tools[1].inputSchema.properties = ToolProperties
       /\ done.resp.result.tools[1].inputSchema.required = <<"prompt">>
  /\ \A k \in Tasks : tasks[k].req.method # <<"tools/list">>

\* tools/list has been answered while a tools/call awaits its upstream call
C19_Witness ==
  /\ done.pc = "returned"
  /\ done.req.method = <<"tools/list">>
  /\ done.req.id = Num(7)
  /\ \E k \in Tasks : tasks[k].pc = "awaitUpstream"

\* the requests the dispatcher recognises, as the claim lists them
Recognised(req) ==
  \/ req.method \in
       {<<"initialize">>, <<"notifications/initialized">>, <<"ping">>, <<"tools/list">>}
  \/ /\ req.method = <<"tools/call">>
     /\ req.params.t = "object"
     /\ req.params.name = Str(<<"query_openai">>)

\* C20: every request whose method is none of initialize,
\* notifications/initialized, ping, tools/list, or tools/call for
\* 'query_openai' gets the request's id and an error with code -32601 and
\* message 'Unknown method: ' followed by the method name; no upstream call
\* is made for it.
C20_UnknownMethod ==
  /\ (done.pc # "none" /\ initialized /\ ~Recognised(done.req)) =>
       /\ done.pc = "returned"
       /\ done.calls = <<>>
       /\ done.resp =
            [keys |-> {"jsonrpc", "id", "error"}, jsonrpc |-> Str(<<"2.0">>),
             id |-> done.req.id,
             error |-> [code |-> -32601,
                        message |-> <<"Unknown method: ">> \o done.req.method]]
  /\ \A k \in Tasks : tasks[k].pc = "awaitUpstream" => Recognised(tasks[k].req)

\* a tools/call for another tool has been answered with -32601
C20_Witness ==
  /\ done.pc = "returned"
  /\ initialized
  /\ done.req.method = <<"tools/call">>
  /\ done.req.params.t = "object"
  /\ done.req.params.name = Str(<<"other_tool">>)
  /\ done.resp.error.code = -32601

----------------------------------------------------------------------------
(* Properties of the authentication gate *)

\* the headers a client sends for user admin with the stored password, trimmed
AcceptedHeaders(stored) ==
  { Str(scheme \o Base64Encode(Admin \o <<":">> \o Trim(stored.s))) : scheme \in BasicSchemes }

\* C14: validateAuthToken returns true if and only if the header uses the
\* Basic scheme and its payload decodes to 'admin:' followed by a password
\* equal, as a whole string, to the stored secret after trimming; a password
\* or a secret may hold ':'.
C14_AcceptsExactly ==
  authDone.pc # "none" =>
    /\ authDone.pc = "returned"
    /\ authDone.result <=>
         /\ authDone.stored.t = "string"
         /\ authDone.header \in AcceptedHeaders(authDone.stored)

\* a secret of which no password can be made: nothing usable in SecretString,
\* or neither password nor token is a string
Unusable(o) ==
  \/ o.rejects
  \/ o.SecretString \in {Undef, Str(<<>>)}
  \/ ~o.valid
  \/ o.password.t # "string" /\ o.token.t # "string"

\* C15: validateAuthToken never raises or rejects; for a missing header, a
\* header of another scheme, an undecodable payload, a failing secret store,
\* an empty secret, a secret that is not valid JSON or one without a string
\* password or token, it returns false.
C15_NeverRaises ==
  authDone.pc # "none" =>
    /\ authDone.pc = "returned"
    /\ ( \/ authDone.header \in {Undef, Bearer, Undecodable}
         \/ authDone.via = "store" /\ Unusable(authDone.answer) ) => ~authDone.result

\* the store rejected the request of a call that carried the right scheme and
\* the user admin; the call returned false
C15_Witness ==
  /\ authDone.pc = "returned"
  /\ authDone.header = BasicHeader(<<"B", "a", "s", "i", "c", " ">>, AdminPw)
  /\ authDone.via = "store"
  /\ authDone.answer.rejects
  /\ ~authDone.result

\* a password is cached and its period has not ended
Live == cachedToken \notin {Null, Str(<<>>)} /\ clock < cacheExpiry

\* call c sends a request to the secret store in this step
StartsFetch(c) == authCalls[c].pc = "idle" /\ authCalls'[c].pc = "awaitSecret"

\* the call answered in this step took the stored password from the store
Fetched == authDone'.pc = "returned" /\ authDone'.via = "store" /\ authDone'.stored # Undef

\* within the period no call sends a request; a call is answered from the
\* cache only within the period, and without the cache only if it needs no
\* password; a fetched password replaces the cached one
C17_UseOfCache ==
  /\ \A c \in AuthCalls : StartsFetch(c) => ~Live
  /\ (authDone'.pc = "returned" /\ authDone'.via = "cache") =>
       Live /\ authDone'.stored = cachedToken /\ authCalls' = authCalls
  /\ (authDone'.pc = "returned" /\ authDone'.via = "none") => authDone'.header = Undef
  /\ Fetched => cachedToken' = Str(Trim(authDone'.stored.s))

\* C17 (as claimed): after the password has been resolved from the store at
\* time t, every call before t + 5 minutes uses the cached value and sends no
\* request; the first call that needs the password at or after t + 5 minutes
\* sends a new request, whose result replaces the cached value and restarts
\* the period: the period ends 5 minutes after the time of the resolution.
C17_Period ==
  [][C17_UseOfCache /\ (Fetched => cacheExpiry' = clock + CACHE_TTL)]_vars

\* C17 (amended): the period ends 5 minutes after the time at which the call
\* that fetched the password read the clock, before it sent its request.
C17_PeriodFromCall ==
  [][C17_UseOfCache /\ (Fetched => cacheExpiry' = authDone'.now + CACHE_TTL)]_vars

\* a call made when the first period had ended fetched the password anew; the
\* answer came after the clock had moved on, and the period runs from the call
C17_Witness ==
  /\ authDone.pc = "returned"
  /\ authDone.via = "store"
  /\ authDone.stored # Undef
  /\ authDone.now >= CACHE_TTL
  /\ clock > authDone.now
  /\ cacheExpiry = authDone.now + CACHE_TTL

----------------------------------------------------------------------------
(* Properties of the Lambda handler *)

\* C16: a request whose authentication fails, the secret store's failures
\* included, is answered with the fixed 401 envelope and is not handed to
\* handleMcpRequest(); the only requests answered without authentication are
\* those for the two discovery paths, which get 404 and are not dispatched.
C16_GateFirst ==
  lamDone.pc = "returned" =>
    /\ lamDone.auth = "failed" =>
         /\ lamDone.resp.statusCode = 401
         /\ lamDone.resp.headers["WWW-Authenticate"] = <<"Basic realm=\"OpenAI MCP Server\"">>
         /\ lamDone.resp.body = createAuthError.body
         /\ ~lamDone.dispatched
    /\ lamDone.auth = "none" =>
         /\ getEventProperties(lamDone.event).ok
         /\ getEventProperties(lamDone.event).path \in DiscoveryPaths
         /\ lamDone.resp.statusCode = 404
         /\ ~lamDone.dispatched

\* C18: nothing written to the log holds the Authorization header's value, the
\* stored password or the API key.
C18_NoCredentialWritten == \A line \in logged : line.holds = {}

----------------------------------------------------------------------------
(* Properties of the model call strategy and of its results *)

\* C22: a tools/call to query_openai whose model starts with 'gpt-5' and
\* whose use_responses_api is false calls chat completions exactly once, and
\* the responses API not at all; the payload holds exactly model, messages
\* [{role: 'user', content: prompt}], reasoning_effort, verbosity and one token
\* ceiling, the two settings as the caller gave them ('medium' when omitted).
C22_Gpt5Chat ==
  \A q \in Seen :
    LET a == ArgsOf(q) IN
      (a.t = "object" /\ Gpt5Family(a) /\ a.use_responses_api = Bool(FALSE)) =>
        /\ Len(q.calls) = 1
        /\ q.calls[1].api = "chat"
        /\ DOMAIN q.calls[1].payload \ TokenFields =
             {"model", "messages", "reasoning_effort", "verbosity"}
        /\ q.calls[1].payload.model =
             (IF a.model = Undef THEN Str(<<"g", "p", "t", "-", "5">>) ELSE a.model)
        /\ q.calls[1].payload.messages = <<[role |-> "user", content |-> a.prompt]>>
        /\ q.calls[1].payload.reasoning_effort =
             (IF a.reasoning_effort = Undef THEN Str(<<"medium">>) ELSE a.reasoning_effort)
        /\ q.calls[1].payload.verbosity =
             (IF a.verbosity = Undef THEN Str(<<"medium">>) ELSE a.verbosity)
        /\ OneCeiling(a, q.calls[1].payload)

\* a chat-completions call for gpt-5.2 with an effort outside the schema's enum
\* has been answered
C22_Witness ==
  \E q \in Seen :
    /\ q.ended
    /\ ArgsOf(q).t = "object"
    /\ ArgsOf(q).model = GPT52
    /\ ArgsOf(q).use_responses_api = Bool(FALSE)
    /\ ArgsOf(q).reasoning_effort = Str(<<"extreme">>)
    /\ q.calls # <<>>
    /\ q.calls[1].payload.reasoning_effort = Str(<<"extreme">>)

\* the text of a resolved upstream call, by the rule of the claim: output_text
\* of the responses shape, the first choice's message content of chat
\* completions; undefined when there is none
UpstreamText(api, body) ==
  IF api = "responses" THEN body.output_text
  ELSE IF body.choices.t # "array" THEN Undef
  ELSE IF Len(body.choices.a) = 0 THEN Undef
  ELSE IF body.choices.a[1].message.t # "object" THEN Undef
  ELSE body.choices.a[1].message.content

\* the response carries one text block: the upstream text, or the literal
TextOrFallback(d) ==
  LET x == UpstreamText(d.calls[1].api, d.upstream.body) IN
    /\ d.resp.keys = {"jsonrpc", "id", "result"}
    /\ Len(d.resp.result.content) = 1
    /\ d.resp.result.content[1].type = "text"
    /\ d.resp.result.content[1].text =
         (IF x.t = "string" /\ Len(x.s) > 0 THEN x ELSE Str(<<"No response received">>))

\* the upstream call of the request answered in this state resolved
Resolved == done.pc = "returned" /\ done.calls # <<>> /\ ~done.upstream.rejects

\* C23 (as claimed): for every upstream call that resolves, result.content is
\* one text block holding the upstream text when it is present and not empty,
\* and 'No response received' otherwise; the text is never empty or missing.
C23_TextOrFallback == Resolved => TextOrFallback(done)

\* C23 (amended): the same, for the responses shape and for a chat completion
\* that carries a choices list; a chat completion without a choices list is
\* answered with the error -32603 and no result.
C23_TextOrFallbackShaped ==
  Resolved =>
    IF done.calls[1].api = "chat" /\ done.upstream.body.choices.t # "array"
      THEN /\ done.resp.keys = {"jsonrpc", "id", "error"}
           /\ done.resp.error.code = -32603
           /\ done.resp.id = done.req.id
      ELSE TextOrFallback(done)

\* a responses call resolved with an empty output_text and was answered with
\* the literal
C23_Witness ==
  /\ Resolved
  /\ done.calls[1].api = "responses"
  /\ done.upstream.body.output_text = Str(<<>>)
  /\ done.resp.result.content[1].text = Str(<<"No response received">>)

\* a tools/call for query_openai, as the claim names it
ToolCall(req) ==
  /\ req.method = <<"tools/call">>
  /\ req.params.t = "object"
  /\ req.params.name = Str(<<"query_openai">>)

\* C29: upstream calls are made only by tools/call for query_openai: a request
\* of any other method ends with no upstream call; one tools/call makes at most
\* one, and exactly one when its arguments are present and the model is a
\* string (or left out, which stands for 'gpt-5'). So the upstream calls never
\* outnumber the tools/call requests handled.
C29_CallsOnlyByToolCall ==
  /\ \A k \in Tasks :
       tasks[k].pc = "awaitUpstream" =>
         /\ ToolCall(tasks[k].req)
         /\ Len(tasks[k].calls) = 1
  /\ done.pc # "none" =>
       /\ Len(done.calls) <= 1
       /\ ~ToolCall(done.req) => done.calls = <<>>
       /\ (done.pc = "returned" /\ ToolCall(done.req)
             /\ done.req.params.arguments.t = "object"
             /\ done.req.params.arguments.model.t \in {"undefined", "string"})
            => Len(done.calls) = 1

\* a tools/call has ended with its one upstream call while another tools/call
\* awaits its own
C29_Witness ==
  /\ done.pc = "returned"
  /\ ToolCall(done.req)
  /\ Len(done.calls) = 1
  /\ \E k \in Tasks : tasks[k].pc = "awaitUpstream" /\ Len(tasks[k].calls) = 1

----------------------------------------------------------------------------
(* Properties of the password cache under failures *)

\* the call answered in this step asked the store and got no usable password
FetchFailed == authDone'.pc = "returned" /\ authDone'.via = "store" /\ authDone'.stored = Undef

\* C30: a failed fetch of the auth password leaves the cached password and its
\* expiry as they were; validateAuthToken returns true from the cache only
\* before the expiry, and otherwise only if a fresh fetch succeeded and the
\* password supplied for admin equals the fetched value, trimmed.
C30_FailedFetchAndExpiry ==
  [][ /\ FetchFailed => (cachedToken' = cachedToken /\ cacheExpiry' = cacheExpiry)
      /\ (authDone'.pc = "returned" /\ authDone'.result) =>
           \/ /\ authDone'.via = "cache"
              /\ clock < cacheExpiry
              /\ authDone'.stored = cachedToken
           \/ /\ authDone'.via = "store"
              /\ authDone'.stored # Undef
              /\ authDone'.header \in AcceptedHeaders(authDone'.stored) ]_vars

----------------------------------------------------------------------------
(* Properties of the Lambda handler's boundary *)

\* the handler returned its answer to an authenticated POST that had a body
AnsweredPost ==
  /\ lamDone.pc = "returned"
  /\ lamDone.auth = "passed"
  /\ getEventProperties(lamDone.event).method = Str(<<"POST">>)
  /\ Truthy(getEventProperties(lamDone.event).body)

\* the body is no JSON, or it is a tools/call for query_openai without arguments
Malformed(body) ==
  \/ ~body.valid
  \/ /\ body.json.method = <<"tools/call">>
     /\ body.json.params.t = "object"
     /\ body.json.params.name = Str(<<"query_openai">>)
     /\ body.json.params.arguments.t \in {"undefined", "null"}

\* C21: an authenticated POST whose body is no valid JSON, or whose JSON lacks
\* required fields, is answered with a protocol error object {code, message}
\* of the -32600 class, not with an unstructured failure.
C21_MalformedRequest ==
  (AnsweredPost /\ Malformed(getEventProperties(lamDone.event).body)) =>
    /\ lamDone.resp.statusCode # 500
    /\ "keys" \in DOMAIN lamDone.resp.body
    /\ "error" \in lamDone.resp.body.keys
    /\ lamDone.resp.body.error.code = -32600

\* the request carries the credentials the gate accepts
Credentialed(event) ==
  /\ event.headers.t = "object"
  /\ (IF Truthy(event.headers.Authorization)
        THEN event.headers.Authorization ELSE event.headers.authorization)
       = Str(<<"B", "a", "s", "i", "c", " ">> \o Base64Encode(AdminPw))

\* the path of a request, whichever the event's format
PathOf(event) == IF Truthy(event.httpMethod) THEN event.path ELSE event.http.path

\* C24: the gate is evaluated before any other processing: initialization is
\* started only for a request that has passed the gate, and a request without
\* valid credentials is answered 401 whatever initialization does (the two
\* discovery paths, which bypass the gate, aside).
C24_GateBeforeInit ==
  /\ [](lamDone.pc = "returned" /\ ~Credentialed(lamDone.event)
          /\ ~(Truthy(lamDone.event.httpMethod) /\ lamDone.event.path \in DiscoveryPaths)
        => lamDone.resp.statusCode = 401)
  /\ [][ (initPromise = "none" /\ initPromise' # "none")
           => \E h \in Handlers : lam[h].pc = "route" ]_vars

\* the four routes of the boundary
Routes ==
  { <<Str(<<"GET">>), Str(<<"/health">>)>>, <<Str(<<"GET">>), Str(<<"/">>)>>,
    <<Str(<<"GET">>), Str(<<"/mcp/info">>)>>, <<Str(<<"POST">>), Str(<<"/">>)>> }

\* C25: an authenticated request that is none of GET /health, GET /,
\* GET /mcp/info, POST / is answered with 404 or 405 and is not handed to
\* handleMcpRequest(); only POST / reaches the dispatcher.
C25_OnlyPostRoot ==
  (lamDone.pc = "returned" /\ lamDone.auth = "passed") =>
    LET p == getEventProperties(lamDone.event) IN
      /\ <<p.method, p.path>> \notin Routes =>
           (lamDone.resp.statusCode \in {404, 405} /\ ~lamDone.dispatched)
      /\ lamDone.dispatched => <<p.method, p.path>> = <<Str(<<"POST">>), Str(<<"/">>)>>

----------------------------------------------------------------------------
(* Properties of the Lambda handler's cold start *)

\* the calls of initializeApp() made so far
InitsMade == {c \in InitCalls : inits[c].pc # "idle"}

\* C28: initializeApp() is invoked at most once per process, whatever the
\* number and interleaving of the handler's invocations: the credential is
\* resolved and the client built at most once. When that one initialization
\* fails it is never attempted again, and every invocation from then on returns
\* status 500 without authenticating or dispatching its request.
C28_InitOnce ==
  /\ [](/\ Cardinality(InitsMade) <= 1
        /\ configReads + secretSends <= 1
        /\ clientsBuilt <= 1
        /\ (initPromise = "rejected" /\ lamDone.pc = "returned") =>
             /\ lamDone.resp.statusCode = 500
             /\ lamDone.auth = "none"
             /\ ~lamDone.dispatched)
  /\ [][initPromise = "rejected" =>
          /\ initPromise' = "rejected"
          /\ inits' = inits
          /\ ~initialized'
          /\ UNCHANGED <<configReads, secretSends, clientsBuilt>>
          /\ authCalls' = authCalls
          /\ tasks' = tasks]_vars

\* the one initialization failed; an invocation has been answered 500 while
\* another, which found the rejected promise, is about to be
C28_Witness ==
  /\ initPromise = "rejected"
  /\ Cardinality(InitsMade) = 1
  /\ lamDone.pc = "returned"
  /\ lamDone.resp.statusCode = 500
  /\ \E h \in Handlers : lam[h].pc = "awaitInit"

----------------------------------------------------------------------------
(* Properties of the standalone server *)

InitPending == inits[1].pc = "awaitSecret"

InitFailed == inits[1].pc = "thrown"

Exited == proc.phase = "exited"

UpstreamCalls == {k \in Tasks : tasks[k].pc = "awaitUpstream"}

\* the last step answered a request with what handleMcpRequest() returned
Served ==
  /\ connDone.pc = "returned"
  /\ connDone.handed # "none"
  /\ connDone.resp.statusCode = 200

\* C26, as stated: once initialization has failed no request is answered 200
\* by the dispatcher and no upstream call is in flight, and a request that
\* arrived while initialization was in progress is not answered 200 by the
\* dispatcher either
C26_FatalInit ==
  /\ InitFailed => UpstreamCalls = {} /\ ~Served
  /\ connDone.pc = "returned" /\ connDone.arrived = "awaitSecret" => ~Served

\* C26, amended: once initialization has failed no request is answered 200 by
\* the dispatcher and no upstream call is in flight; a request whose body is
\* handed to handleMcpRequest() while initialization is in progress or after it
\* failed makes no upstream call and is answered 500; and after the failure
\* the process exits
C26_FatalInitHanded ==
  /\ [](/\ InitFailed => UpstreamCalls = {} /\ ~Served
        /\ conn.handed \in {"awaitSecret", "thrown"} =>
             conn.pc = "settled" /\ conn.result.pc = "rejected" /\ UpstreamCalls = {}
        /\ connDone.handed \in {"awaitSecret", "thrown"} =>
             connDone.resp = ServerError(MessageOf(NotInitializedError)))
  /\ (InitFailed ~> Exited)

\* initialization has failed and shutdown() has run; a request that arrived
\* while initialization was in progress and was handed to handleMcpRequest()
\* after the failure is answered 500
C26_Witness ==
  /\ InitFailed
  /\ proc.phase = "closing"
  /\ connDone.pc = "returned"
  /\ connDone.arrived = "awaitSecret"
  /\ connDone.handed = "thrown"
  /\ connDone.resp.statusCode = 500

\* the forced exit of the first shutdown() call
Deadline == proc.first + ForceExitAfter

\* C27: from the first call of shutdown() the process exits, not later than
\* 5 seconds after it; with code 0 when the 'close' event ends it and the
\* server was running, with code 1 otherwise; whatever triggers follow
C27_BoundedShutdown ==
  /\ [](/\ proc.phase = "closing" => clock <= Deadline
        /\ Exited =>
             /\ clock <= Deadline
             /\ proc.code = IF proc.by = "close" /\ proc.listening THEN 0 ELSE 1)
  /\ (proc.phase = "closing" ~> Exited)

\* the process has exited with code 0 after more than one trigger, some time
\* after the first
C27_Witness ==
  /\ Exited
  /\ proc.code = 0
  /\ Len(proc.callbacks) >= 2
  /\ proc.pending = {}
  /\ clock > proc.first

====
